---- MODULE Spec2Model ----
(***************************************************************************)
(* Control loops of the BlackBox sound modules.                            *)
(*                                                                         *)
(*   noise_generator  src/OLED/Modules/noise_generator/run.py              *)
(*   tone_generator   src/OLED/Modules/tone_generator/run.py               *)
(*   uap_caller       src/OLED/Modules/uap_caller/run.py                   *)
(*   legacy noise     src/Noise Generator/run.py                           *)
(*   streaming tone   src/OLED/Modules/Tone_Generator/run.py               *)
(*   configuration    src/Tone Generator/run.py, src/SpiritBox Module/run.py,*)
(*                    src/OLED/Modules/Spirit_Box/run.py                     *)
(*                                                                         *)
(* Each module is a separate process; prog names the one that is running.  *)
(* Time is counted in milliseconds.  Every step records the events it      *)
(* wrote to stdout (out) and the sink processes it spawned (spawns).       *)
(***************************************************************************)
EXTENDS Integers, Sequences, FiniteSets, TLC

VARIABLES prog, ng, ngPc, tg, tgPc, uap, uapPc, lg, lgPc, stn, stnPc, rnd, rndPc, cfg, cfgPc, sb, sbPc, pg, pgPc, wv, wvPc, pm, pmPc, rg, rgPc, line

\* ------------------------------------------------------------------------
\* Bounds
\* ------------------------------------------------------------------------
\* The volume is explored up to this many 5 % steps away from its start.
MaxVolSteps == 1
\* The tone generator reads at most this many command lines.
MaxCmds == 5
\* The tone generator's sink loop is found dead at most this many times.
MaxLoopRestarts == 4
\* uap_caller is asked for at most this many rebuilds.
MaxBuilds == 3
\* Commands applied to a drawn parameter setting (SpecParams).
MaxApply == 3
\* The legacy noise generator reads at most this many events.
MaxLgEvents == 5
\* Writes to the sink of the streaming tone generator fail at most this many
\* times in a row.
MaxSinkFails == 3
\* Samples rendered by one call of a sample generator.
MaxFrames == 2
\* Samples of a pattern built by the noise generator.
MaxBuildLen == 3
\* Builds of the same pattern that are compared.
MaxRenders == 2
\* The spirit box reads at most this many commands.
MaxSbCmds == 4
\* The spirit box's sweep is followed this many steps away from its start.
MaxSweepSteps == 1
\* Blocks rendered by the legacy noise generator with the pulse gate on.
MaxBlocks == 5
\* Bytes the child of the launcher writes to its stdout.
MaxChildBytes == 5
\* Calls of StdoutJSONPump.pump.
MaxPumpCalls == 3
\* The largest max_lines and max_bytes pump is called with, and the most
\* bytes one os.read returns.
MaxLines == 2
MaxBytes == 4
MaxChunk == 3
\* PCMRing: the capacity in bytes, the longest block the capture thread
\* pushes, the largest number of bytes a snapshot asks for, and the numbers
\* of pushes and snapshots.
RingMaxBytes == 4
MaxBlock == 3
MaxWant == 4
MaxPushes == 4
MaxSnaps == 2

\* ------------------------------------------------------------------------
\* Shared vocabulary
\* ------------------------------------------------------------------------
Progs == {"noise", "tone", "uap", "legacy", "stream", "render", "config", "spirit", "pulse", "wav", "pump", "ring"}

Commands == {"up", "down", "select", "select_hold", "back"}

\* A line that is not in the vocabulary.
Tokens == Commands \cup {"junk"}

\* _clamp that forgets the upper limit.
clamp_NoUpper(v, lo, hi) == IF v < lo THEN lo ELSE v

clamp(v, lo, hi) == IF v < lo THEN lo ELSE IF v > hi THEN hi ELSE v

\* A line of input as a reader sees it after strip(): the word it spells in
\* lower case, and whether some of its letters are upper case.
Lines == [word : Tokens, upper : BOOLEAN]

\* No line read yet.
NoLine == [word |-> "none", upper |-> FALSE]

\* str.lower
lower(l) == [l EXCEPT !.upper = FALSE]

\* The command the comparisons cmd == "up", cmd == "back", ... of a handler
\* take the string for: they match lower-case spellings only.
Token(l) == IF l.upper THEN "junk" ELSE l.word

\* NoiseModule._read_stdin: decode and strip.
Ng_read_line(l) == Token(l)

\* StdinReader.poll_lines of the tone generator: decode, strip, lower.
Tg_poll_line(l) == Token(lower(l))

\* handle_cmd of uap_caller: strip, lower.
Uap_cmd_line(l) == Token(lower(l))

\* The stdin reader of spirit_box: decode, strip, lower.
Sb_poll_line(l) == Token(lower(l))

\* read_event of the legacy noise generator: strip, lower.
Lg_read_event(l) == Token(lower(l))

\* ========================================================================
\* noise_generator
\* ========================================================================
NG_HEARTBEAT_MS == 250
NG_TICK_MS == 50
NG_START_SLEEP_MS == 50
NG_RETRY_SLEEP_MS == 150
NG_RETRIES == 3
NG_INIT_VOLUME == 70
NG_VOLUME_STEP == 5

\* The part of the volume range the model explores.
NgVolumeInWindow(v) ==
    /\ v >= NG_INIT_VOLUME - NG_VOLUME_STEP * MaxVolSteps
    /\ v <= NG_INIT_VOLUME + NG_VOLUME_STEP * MaxVolSteps

MODES == <<"white", "pink", "brown", "sweep">>
PULSE_OPTIONS_MS == <<150, 200, 250, 300>>

\* What one start of the /bin/sh loop can do: the loop runs, the loop is
\* spawned and is dead 50 ms later, or writing the WAV raises before any
\* spawn, with no file created (ioerr) or with the file left behind
\* (ioerr_partial).
StartOutcomes == {"ok", "died", "ioerr", "ioerr_partial"}

NgFatalTags == {"none", "start", "playback", "stdin"}

\* NoiseModule.__init__ with AudioLoop.__init__; player is the result of the
\* PATH probe.  since is the time since _last_state_emit; gap is the largest
\* distance between two consecutive state events seen in the last step.
\* kills counts the running sinks the last step terminated.  wav_file and
\* tick_files say whether _wav_path and any of _tick_paths exist; removed
\* counts the files the last step removed.  exits counts the exit events
\* written so far, cause is what set _stop, rc the exit status (-1 while the
\* process runs).
NoiseModule(player) ==
    [ player    |-> player,
      proc      |-> "none",
      stop      |-> FALSE,
      fatal     |-> "none",
      mode_idx  |-> 0,
      mode      |-> MODES[1],
      playing   |-> FALSE,
      volume    |-> NG_INIT_VOLUME,
      pulse_idx |-> 1,
      pulse_ms  |-> PULSE_OPTIONS_MS[2],
      focus     |-> "mode",
      wav_file  |-> FALSE,
      wrote_live |-> FALSE,
      tick_files |-> FALSE,
      removed   |-> 0,
      exits     |-> 0,
      cause     |-> "none",
      rc        |-> -1,
      since     |-> 0,
      gap       |-> 0,
      out       |-> << >>,
      spawns    |-> 0,
      kills     |-> 0,
      attempts  |-> 0,
      cmd       |-> "none" ]

NgMode(s) == s.mode
NgPulseMs(s) == s.pulse_ms

\* Start of a step: nothing written, nothing spawned yet.
NgBegin(s, cmd) ==
    [s EXCEPT !.out = << >>, !.spawns = 0, !.kills = 0, !.attempts = 0, !.gap = 0,
              !.removed = 0, !.wrote_live = FALSE, !.cmd = cmd]

NgSleep(s, ms) == [s EXCEPT !.since = @ + ms]

NgEmit(s, ev) ==
    [s EXCEPT !.out = Append(@, ev),
              !.exits = IF ev.type = "exit" THEN @ + 1 ELSE @]

Ng_toast(s) == NgEmit(s, [type |-> "toast"])

Ng_fatal(s, tag) ==
    NgEmit([s EXCEPT !.fatal = tag],
           [type |-> "fatal", message |-> tag, playing |-> s.playing])

NgStateEvent(s) ==
    [ type     |-> "state",
      ready    |-> (s.fatal = "none"),
      mode     |-> NgMode(s),
      playing  |-> s.playing,
      volume   |-> s.volume,
      focus    |-> s.focus,
      pulse_ms |-> NgPulseMs(s) ]

Ng_emit_state(s, force) ==
    IF ~force /\ s.since < NG_HEARTBEAT_MS
    THEN s
    ELSE NgEmit([s EXCEPT !.gap = IF s.since > @ THEN s.since ELSE @,
                          !.since = 0],
                NgStateEvent(s))

\* AudioLoop.stop that signals the sink and keeps its handle.
Ng_audio_stop_KeepsHandle(s) ==
    [s EXCEPT !.kills = IF s.proc = "alive" THEN @ + 1 ELSE @]

\* AudioLoop.stop
Ng_audio_stop(s) ==
    [s EXCEPT !.proc = "none", !.kills = IF s.proc = "alive" THEN @ + 1 ELSE @]

\* The exit event, with the sink handle as it is when the event is written.
NgExitEvent(s) == [type |-> "exit", proc |-> s.proc]

\* AudioLoop.start_continuous / start_sweep: the result carries raised.
Ng_audio_start(s, outcome) ==
    LET s1 == Ng_audio_stop(s) IN
    IF ~s1.player
    THEN [st |-> s1, raised |-> TRUE]
    ELSE LET s2 == NgSleep([s1 EXCEPT !.spawns = @ + 1,
                                      !.proc = IF outcome = "ok" THEN "alive" ELSE "dead"],
                           NG_START_SLEEP_MS)
         IN  [st |-> s2, raised |-> (outcome # "ok")]

\* NoiseModule._write_tick_wavs / _write_loop_wav, as _start_audio picks them;
\* wrote_live records a write made while the sink is running.
Ng_write_wavs(s) ==
    LET s1 == [s EXCEPT !.wrote_live = @ \/ s.proc = "alive"] IN
    IF NgMode(s1) = "sweep"
    THEN [s1 EXCEPT !.tick_files = TRUE]
    ELSE [s1 EXCEPT !.wav_file = TRUE]

\* NoiseModule._start_audio; attempts counts the calls that have to start.
Ng_start_audio(s, outcome) ==
    IF s.playing
    THEN [st |-> s, raised |-> FALSE]
    ELSE LET s0 == [s EXCEPT !.attempts = @ + 1] IN
         IF ~s.player
         THEN [st |-> s0, raised |-> TRUE]
         ELSE IF outcome = "ioerr"
         THEN [st |-> s0, raised |-> TRUE]
         ELSE IF outcome = "ioerr_partial"
         THEN [st |-> Ng_write_wavs(s0), raised |-> TRUE]
         ELSE LET r == Ng_audio_start(Ng_write_wavs(s0), outcome) IN
              IF r.raised
              THEN r
              ELSE [st |-> [r.st EXCEPT !.playing = TRUE], raised |-> FALSE]

Ng_stop_audio(s) == [Ng_audio_stop(s) EXCEPT !.playing = FALSE]

\* _restart_if_playing without the test of playing.
Ng_restart_if_playing_Always(s, outcome) == Ng_start_audio(Ng_stop_audio(s), outcome)

\* _restart_if_playing that leaves the stop to start_continuous / start_sweep.
Ng_restart_if_playing_NoStop(s, outcome) ==
    IF ~s.playing
    THEN [st |-> s, raised |-> FALSE]
    ELSE Ng_start_audio([s EXCEPT !.playing = FALSE], outcome)

\* NoiseModule._restart_if_playing
Ng_restart_if_playing(s, outcome) ==
    IF ~s.playing
    THEN [st |-> s, raised |-> FALSE]
    ELSE Ng_start_audio(Ng_stop_audio(s), outcome)

Ng_set_mode(s, idx, outcome) ==
    Ng_restart_if_playing(Ng_toast([s EXCEPT !.mode_idx = idx % Len(MODES),
                                             !.mode = MODES[(idx % Len(MODES)) + 1]]),
                          outcome)

\* _change_mode that applies the step twice.
Ng_change_mode_DoubleStep(s, delta, outcome) ==
    Ng_set_mode(s, s.mode_idx + 2 * delta, outcome)

Ng_change_mode(s, delta, outcome) == Ng_set_mode(s, s.mode_idx + delta, outcome)

Ng_change_volume(s, delta, outcome) ==
    Ng_restart_if_playing(Ng_toast([s EXCEPT !.volume = clamp(s.volume + delta, 0, 100)]),
                          outcome)

Ng_set_pulse_idx(s, idx, outcome) ==
    LET s1 == Ng_toast([s EXCEPT
                  !.pulse_idx = idx % Len(PULSE_OPTIONS_MS),
                  !.pulse_ms = PULSE_OPTIONS_MS[(idx % Len(PULSE_OPTIONS_MS)) + 1]]) IN
    IF NgMode(s1) = "sweep"
    THEN Ng_restart_if_playing(s1, outcome)
    ELSE [st |-> s1, raised |-> FALSE]

Ng_change_pulse(s, delta, outcome) == Ng_set_pulse_idx(s, s.pulse_idx + delta, outcome)

Ng_cycle_focus(s) ==
    LET f == IF s.focus = "mode" THEN "volume"
             ELSE IF s.focus = "volume" THEN "pulse" ELSE "mode"
    IN  Ng_emit_state(Ng_toast([s EXCEPT !.focus = f]), TRUE)

\* NgGuarded that writes the state only when nothing was raised.
NgGuarded_NoFinally(r) ==
    IF r.raised THEN Ng_fatal(r.st, "start") ELSE Ng_emit_state(r.st, TRUE)

\* try / except -> fatal / finally -> emit_state(force=True)
NgGuarded(r) ==
    Ng_emit_state(IF r.raised THEN Ng_fatal(r.st, "start") ELSE r.st, TRUE)

NgAdjust(s, sign, outcome) ==
    IF s.focus = "mode" THEN Ng_change_mode(s, sign, outcome)
    ELSE IF s.focus = "volume" THEN Ng_change_volume(s, NG_VOLUME_STEP * sign, outcome)
    ELSE Ng_change_pulse(s, sign, outcome)

NgSelect(s, outcome) ==
    IF s.playing
    THEN [st |-> Ng_toast(Ng_stop_audio(s)), raised |-> FALSE]
    ELSE LET r == Ng_start_audio(s, outcome) IN
         IF r.raised THEN r ELSE [st |-> Ng_toast(r.st), raised |-> FALSE]

\* Ng_handle without the check of _fatal.
Ng_handle_NoFatalCheck(s, cmd, outcome) ==
    IF cmd = "back"
    THEN LET s1 == [Ng_stop_audio(s) EXCEPT !.stop = TRUE] IN NgEmit(s1, NgExitEvent(s1))
    ELSE IF cmd = "select" THEN NgGuarded(NgSelect(s, outcome))
    ELSE IF cmd = "select_hold" THEN Ng_cycle_focus(s)
    ELSE IF cmd = "up" THEN NgGuarded(NgAdjust(s, 1, outcome))
    ELSE IF cmd = "down" THEN NgGuarded(NgAdjust(s, -1, outcome))
    ELSE s

\* Ng_handle that writes the exit event before it stops the sink.
Ng_handle_ExitFirst(s, cmd, outcome) ==
    IF cmd = "back"
    THEN [Ng_stop_audio(NgEmit(s, NgExitEvent(s))) EXCEPT !.stop = TRUE]
    ELSE IF s.fatal # "none" THEN s
    ELSE IF cmd = "select" THEN NgGuarded(NgSelect(s, outcome))
    ELSE IF cmd = "select_hold" THEN Ng_cycle_focus(s)
    ELSE IF cmd = "up" THEN NgGuarded(NgAdjust(s, 1, outcome))
    ELSE IF cmd = "down" THEN NgGuarded(NgAdjust(s, -1, outcome))
    ELSE s

\* NoiseModule.handle
Ng_handle(s, cmd, outcome) ==
    IF cmd = "back"
    THEN LET s1 == [Ng_stop_audio(s) EXCEPT !.stop = TRUE] IN NgEmit(s1, NgExitEvent(s1))
    ELSE IF s.fatal # "none" THEN s
    ELSE IF cmd = "select" THEN NgGuarded(NgSelect(s, outcome))
    ELSE IF cmd = "select_hold" THEN Ng_cycle_focus(s)
    ELSE IF cmd = "up" THEN NgGuarded(NgAdjust(s, 1, outcome))
    ELSE IF cmd = "down" THEN NgGuarded(NgAdjust(s, -1, outcome))
    ELSE s

\* The recovery loop of run: up to NG_RETRIES times, sleep and _start_audio.
RECURSIVE NgRecover(_, _, _)
NgRecover(s, outcomes, k) ==
    IF k > NG_RETRIES
    THEN [st |-> s, recovered |-> FALSE]
    ELSE LET r == Ng_start_audio(NgSleep(s, NG_RETRY_SLEEP_MS), outcomes[k]) IN
         IF r.raised
         THEN NgRecover(r.st, outcomes, k + 1)
         ELSE [st |-> Ng_toast(r.st), recovered |-> TRUE]

\* Ng_run_check that keeps playing set while it recovers.
Ng_run_check_KeepsPlaying(s, outcomes) ==
    LET s1 == IF s.playing /\ s.proc = "dead"
              THEN LET r == NgRecover(s, outcomes, 1) IN
                   Ng_emit_state(IF r.recovered THEN r.st
                                 ELSE Ng_fatal(r.st, "playback"), TRUE)
              ELSE s
    IN  Ng_emit_state(s1, FALSE)

\* run, after the select: death check, recovery, heartbeat.
Ng_run_check(s, outcomes) ==
    LET s1 == IF s.playing /\ s.proc = "dead"
              THEN LET r == NgRecover([s EXCEPT !.playing = FALSE], outcomes, 1) IN
                   Ng_emit_state(IF r.recovered THEN r.st
                                 ELSE Ng_fatal(r.st, "playback"), TRUE)
              ELSE s
    IN  Ng_emit_state(s1, FALSE)

\* main: the finally clause after run has returned.
Ng_main_finally(s) ==
    [Ng_stop_audio(s) EXCEPT
        !.wav_file = FALSE, !.tick_files = FALSE,
        !.removed = (IF s.wav_file THEN 1 ELSE 0) + (IF s.tick_files THEN 1 ELSE 0)]

\* The __main__ block: sys.exit(main()) raises SystemExit(0), which the
\* except BaseException clause catches.
Ng_dunder_main(s) ==
    LET s1 == NgEmit(s, [type |-> "fatal", message |-> "0", playing |-> s.playing])
    IN  [NgEmit(s1, NgExitEvent(s1)) EXCEPT !.rc = 1]

\* ---- actions -----------------------------------------------------------
NgRest == UNCHANGED <<prog, tg, tgPc, uap, uapPc, lg, lgPc, stn, stnPc, rnd, rndPc, cfg, cfgPc, sb, sbPc, pg, pgPc, wv, wvPc, pm, pmPc, rg, rgPc>>
NgOthers == NgRest /\ UNCHANGED line

\* sel.select(timeout=TICK_S): input is ready at once, or the timeout runs out.
NgSelectInput ==
    /\ prog = "noise" /\ ngPc = "select"
    /\ ng' = NgBegin(ng, "none")
    /\ ngPc' = "read"
    /\ NgOthers

NgSelectTimeout ==
    /\ prog = "noise" /\ ngPc = "select"
    /\ ng' = NgSleep(NgBegin(ng, "none"), NG_TICK_MS)
    /\ ngPc' = "check"
    /\ NgOthers

\* The command can reach _start_audio, so the outcome of the start matters.
NgMayStart(s, tok) ==
    \/ tok = "select" /\ ~s.playing
    \/ tok \in {"up", "down"} /\ s.playing

\* The stripped lines _read_stdin can split off its buffer: the tokens and
\* the empty string.
NgLines == Tokens \cup {"empty"}

\* Ng_read_cmd that takes an empty line for the end of the input.
Ng_read_cmd_StopsOnEmpty(s, ln, outcome) ==
    IF ln = "empty" THEN [s EXCEPT !.stop = TRUE] ELSE Ng_handle(s, ln, outcome)

\* _read_stdin: if cmd: self.handle(cmd)
Ng_read_cmd(s, ln, outcome) ==
    IF ln = "empty" THEN s ELSE Ng_handle(s, ln, outcome)

\* _read_stdin: one line of the chunk is taken; after a handled line the
\* reader returns if _stop is set.
NgCommand(tok, outcome) ==
    /\ prog = "noise" /\ ngPc = "read"
    /\ NgMayStart(ng, tok) \/ outcome = "ok"
    /\ ng' = LET s1 == Ng_read_cmd(NgBegin(ng, tok), tok, outcome)
             IN  [s1 EXCEPT !.cause = IF s1.stop /\ ~ng.stop THEN "back" ELSE @]
    /\ NgVolumeInWindow(ng'.volume)
    /\ ngPc' = IF tok # "empty" /\ ng'.stop THEN "check" ELSE "read"
    /\ NgOthers

\* _read_stdin: os.read reports EAGAIN.
NgReadDrained ==
    /\ prog = "noise" /\ ngPc = "read"
    /\ ng' = NgBegin(ng, "none")
    /\ ngPc' = "check"
    /\ NgOthers

\* _read_stdin: os.read returns b"" (end of input).
NgReadEOF ==
    /\ prog = "noise" /\ ngPc = "read"
    /\ ng' = [NgBegin(ng, "none") EXCEPT !.stop = TRUE, !.cause = "eof"]
    /\ ngPc' = "check"
    /\ NgOthers

\* _read_stdin: os.read raises another OSError.
NgReadError ==
    /\ prog = "noise" /\ ngPc = "read"
    /\ ng' = Ng_fatal(NgBegin(ng, "none"), "stdin")
    /\ ngPc' = "check"
    /\ NgOthers

\* run: the rest of the iteration when the sink has not died.
NgCheck ==
    /\ prog = "noise" /\ ngPc = "check"
    /\ ~(ng.playing /\ ng.proc = "dead")
    /\ ng' = Ng_run_check(NgBegin(ng, "none"), [k \in 1..NG_RETRIES |-> "ok"])
    /\ ngPc' = IF ng.stop THEN "done" ELSE "select"
    /\ NgOthers

\* run: the rest of the iteration when the sink is found dead while playing.
NgCheckDied(outcomes) ==
    /\ prog = "noise" /\ ngPc = "check"
    /\ ng.playing /\ ng.proc = "dead"
    /\ ng' = Ng_run_check(NgBegin(ng, "none"), outcomes)
    /\ ngPc' = IF ng.stop THEN "done" ELSE "select"
    /\ NgOthers

\* The /bin/sh loop exits on its own.
NgSinkDies ==
    /\ prog = "noise" /\ ngPc \notin {"done", "exited"}
    /\ ng.proc = "alive"
    /\ ng' = [NgBegin(ng, "none") EXCEPT !.proc = "dead"]
    /\ UNCHANGED ngPc
    /\ NgOthers

\* main._sig: SIGTERM / SIGINT between two steps of the loop.
NgSignal ==
    /\ prog = "noise" /\ ngPc \notin {"done", "exited"}
    /\ ~ng.stop
    /\ ng' = LET s1 == [Ng_stop_audio(NgBegin(ng, "none")) EXCEPT
                           !.stop = TRUE, !.cause = "signal"]
             IN  NgEmit(s1, NgExitEvent(s1))
    /\ UNCHANGED ngPc
    /\ NgOthers

\* run has returned: the finally clause of main, then the __main__ block.
NgProcessExit ==
    /\ prog = "noise" /\ ngPc = "done"
    /\ ng' = Ng_dunder_main(Ng_main_finally(NgBegin(ng, "none")))
    /\ ngPc' = "exited"
    /\ NgOthers

NgNext ==
    \/ NgSelectInput
    \/ NgSelectTimeout
    \/ \E tok \in NgLines, o \in StartOutcomes : NgCommand(tok, o)
    \/ NgReadDrained
    \/ NgReadEOF
    \/ NgReadError
    \/ NgCheck
    \/ \E os \in [1..NG_RETRIES -> StartOutcomes] : NgCheckDied(os)
    \/ NgSinkDies
    \/ NgSignal
    \/ NgProcessExit

\* ========================================================================
\* tone_generator
\* ========================================================================
TG_INIT_FREQ == 440
TG_INIT_VOLUME == 70
TG_VOLUME_STEP == 5
TG_FREQ_MIN == 20
TG_FREQ_MAX == 20000

SPECIAL_FREQS == <<174, 285, 396, 417, 528, 639, 741, 852, 936>>
SPECIAL_TONES == <<"sweep_asc", "sweep_des", "sweep_bell", "shepard_asc",
                   "shepard_des", "contact_call", "contact_resp">>
MAIN_ROWS == <<"frequency", "volume", "play">>
FREQ_MENU_ROWS == <<"manual", "special_freq", "special_tone">>

freq_step(freq) == IF freq < 200 THEN 5 ELSE IF freq <= 2000 THEN 10 ELSE 50
freq_big_step(freq) == IF freq < 200 THEN 25 ELSE IF freq <= 2000 THEN 100 ELSE 500

IndexOf(lst, cur) ==
    IF \E i \in DOMAIN lst : lst[i] = cur
    THEN (CHOOSE i \in DOMAIN lst : lst[i] = cur) - 1
    ELSE 0

move_cursor(lst, cur, direction) == lst[((IndexOf(lst, cur) + direction) % Len(lst)) + 1]

\* What a pattern is generated from.
NoPattern == [kind |-> "none", freq |-> 0, volume |-> 0]

\* UIState(), the locals of main and the BuildJob; player is the result of
\* _which_player.  wphase is the position of the worker thread, job what it
\* has read so far, wav what PATTERN_WAV holds, played what the running sink
\* loop was started on.  threads counts the worker threads that are alive.
\* tmp_file says that a failed build left PATTERN_WAV.tmp behind; cause is
\* what set the exiting flag, back_in_build that back set it while
\* st.building was set.
\* hb records that the last step was an iteration in which HEARTBEAT_S had
\* elapsed since last_hb.
\* Toast events depend on the toast clock and are not recorded in out.
UIState(player) ==
    [ player           |-> player,
      page             |-> "main",
      cursor_main      |-> "frequency",
      cursor_freq_menu |-> "manual",
      idx_special_freq |-> 0,
      idx_special_tone |-> 0,
      freq_hz          |-> TG_INIT_FREQ,
      volume           |-> TG_INIT_VOLUME,
      selection        |-> "manual",
      special_tone_id  |-> "",
      playing          |-> FALSE,
      ready            |-> FALSE,
      building         |-> FALSE,
      need_restart     |-> FALSE,
      exiting          |-> FALSE,
      audio_proc       |-> "none",
      done             |-> FALSE,
      ok               |-> FALSE,
      wphase           |-> "idle",
      threads          |-> 0,
      job              |-> NoPattern,
      wav              |-> NoPattern,
      played           |-> NoPattern,
      fatal_emitted    |-> FALSE,
      loop_restarts    |-> 0,
      ncmds            |-> 0,
      out              |-> << >>,
      spawns           |-> 0,
      builds           |-> 0,
      refused          |-> FALSE,
      tmp_file         |-> FALSE,
      cause            |-> "none",
      back_in_build    |-> FALSE,
      hb               |-> FALSE,
      cmd              |-> "none" ]

\* Start of a step: nothing written, spawned, built or refused yet.
TgBegin(s, cmd) ==
    [s EXCEPT !.out = << >>, !.spawns = 0, !.builds = 0, !.refused = FALSE,
              !.hb = FALSE, !.cmd = cmd]

TgEmit(s, ev) == [s EXCEPT !.out = Append(@, ev)]

Tg_fatal(s) == [TgEmit(s, [type |-> "fatal"]) EXCEPT !.fatal_emitted = TRUE]

TgStateEvent(s) ==
    [ type         |-> "state",
      page         |-> s.page,
      ready        |-> s.ready,
      playing      |-> s.playing,
      freq_hz      |-> s.freq_hz,
      volume       |-> s.volume,
      selection    |-> s.selection,
      special_tone |-> s.special_tone_id,
      building     |-> s.building ]

Tg_emit_state(s) == TgEmit(s, TgStateEvent(s))

Tg_emit_page(s) == TgEmit(s, [type |-> "page", name |-> s.page])

\* main: the player preflight after _hello.
Tg_preflight(s) ==
    IF ~s.player
    THEN Tg_fatal(Tg_emit_state([s EXCEPT !.ready = FALSE]))
    ELSE Tg_emit_state([s EXCEPT !.ready = TRUE])

\* _stop_proc: the times the process group of p is signalled (SIGTERM, with
\* SIGKILL counted with it).
Tg_stop_proc(p) == IF p = "alive" THEN 1 ELSE 0

Tg_stop_audio(s) == [s EXCEPT !.audio_proc = "none"]

Tg_request_audio_restart(s) == [s EXCEPT !.need_restart = TRUE]

\* The exit event, with the sink handle as it is when the event is written.
TgExitEvent(s) == [type |-> "exit", audio_proc |-> s.audio_proc]

\* main: the exit path at the end of an iteration.
Tg_exit_path(s) == LET s1 == Tg_stop_audio(s) IN TgEmit(s1, TgExitEvent(s1))

Tg_go(s, page) == Tg_emit_state(Tg_emit_page([s EXCEPT !.page = page]))

\* back_to_main that also raises the exiting flag.
Tg_back_to_main_Exits(s) == [Tg_go(s, "main") EXCEPT !.exiting = TRUE]

Tg_back_to_main(s) == Tg_go(s, "main")

Tg_handle_main(s, cmd) ==
    IF cmd = "up"
    THEN Tg_emit_state([s EXCEPT !.cursor_main = move_cursor(MAIN_ROWS, @, -1)])
    ELSE IF cmd = "down"
    THEN Tg_emit_state([s EXCEPT !.cursor_main = move_cursor(MAIN_ROWS, @, 1)])
    ELSE IF cmd = "select" /\ s.cursor_main = "frequency"
    THEN Tg_go(s, "freq_menu")
    ELSE IF cmd = "select" /\ s.cursor_main = "volume"
    THEN Tg_emit_state(Tg_request_audio_restart(
             [s EXCEPT !.volume = clamp(@ + TG_VOLUME_STEP, 0, 100)]))
    ELSE IF cmd = "select" /\ s.cursor_main = "play"
    THEN Tg_emit_state(Tg_request_audio_restart([s EXCEPT !.playing = ~@]))
    ELSE IF cmd = "select_hold" /\ s.cursor_main = "volume"
    THEN Tg_emit_state(Tg_request_audio_restart(
             [s EXCEPT !.volume = clamp(@ - TG_VOLUME_STEP, 0, 100)]))
    ELSE IF cmd = "select_hold" /\ s.cursor_main = "play"
    THEN IF s.playing
         THEN Tg_emit_state(Tg_request_audio_restart([s EXCEPT !.playing = FALSE]))
         ELSE s
    ELSE IF cmd = "back"
    THEN [Tg_request_audio_restart([s EXCEPT !.playing = FALSE]) EXCEPT
             !.exiting = TRUE, !.cause = IF s.exiting THEN @ ELSE "back",
             !.back_in_build = IF s.exiting THEN @ ELSE s.building]
    ELSE s

Tg_handle_freq_menu(s, cmd) ==
    IF cmd = "up"
    THEN Tg_emit_state([s EXCEPT !.cursor_freq_menu = move_cursor(FREQ_MENU_ROWS, @, -1)])
    ELSE IF cmd = "down"
    THEN Tg_emit_state([s EXCEPT !.cursor_freq_menu = move_cursor(FREQ_MENU_ROWS, @, 1)])
    ELSE IF cmd = "select" /\ s.cursor_freq_menu = "manual" THEN Tg_go(s, "freq_edit")
    ELSE IF cmd = "select" /\ s.cursor_freq_menu = "special_freq" THEN Tg_go(s, "special_freqs")
    ELSE IF cmd = "select" /\ s.cursor_freq_menu = "special_tone" THEN Tg_go(s, "special_tones")
    ELSE IF cmd = "back" THEN Tg_back_to_main(s)
    ELSE s

\* The manual edits of handle_freq_edit: freq_hz becomes f.
TgSetManual(s, f) ==
    Tg_emit_state(Tg_request_audio_restart(
        [s EXCEPT !.freq_hz = clamp(f, TG_FREQ_MIN, TG_FREQ_MAX),
                  !.selection = "manual",
                  !.special_tone_id = ""]))

Tg_handle_freq_edit(s, cmd) ==
    IF cmd = "up" THEN TgSetManual(s, s.freq_hz + freq_step(s.freq_hz))
    ELSE IF cmd = "down" THEN TgSetManual(s, s.freq_hz - freq_step(s.freq_hz))
    ELSE IF cmd = "select_hold" THEN TgSetManual(s, s.freq_hz + freq_big_step(s.freq_hz))
    ELSE IF cmd = "select" \/ cmd = "back" THEN Tg_back_to_main(s)
    ELSE s

Tg_handle_special_freqs(s, cmd) ==
    IF cmd = "up"
    THEN Tg_emit_state([s EXCEPT !.idx_special_freq = (@ - 1) % Len(SPECIAL_FREQS)])
    ELSE IF cmd = "down"
    THEN Tg_emit_state([s EXCEPT !.idx_special_freq = (@ + 1) % Len(SPECIAL_FREQS)])
    ELSE IF cmd = "select"
    THEN Tg_back_to_main(Tg_request_audio_restart(
             [s EXCEPT !.freq_hz = SPECIAL_FREQS[s.idx_special_freq + 1],
                       !.selection = "special_freq",
                       !.special_tone_id = ""]))
    ELSE IF cmd = "back" THEN Tg_back_to_main(s)
    ELSE s

Tg_handle_special_tones(s, cmd) ==
    IF cmd = "up"
    THEN Tg_emit_state([s EXCEPT !.idx_special_tone = (@ - 1) % Len(SPECIAL_TONES)])
    ELSE IF cmd = "down"
    THEN Tg_emit_state([s EXCEPT !.idx_special_tone = (@ + 1) % Len(SPECIAL_TONES)])
    ELSE IF cmd = "select"
    THEN Tg_back_to_main(Tg_request_audio_restart(
             [s EXCEPT !.selection = "special_tone",
                       !.special_tone_id = SPECIAL_TONES[s.idx_special_tone + 1]]))
    ELSE IF cmd = "back" THEN Tg_back_to_main(s)
    ELSE s

\* main: the dispatch on st.page inside the loop.
Tg_dispatch(s, cmd) ==
    IF s.page = "main" THEN Tg_handle_main(s, cmd)
    ELSE IF s.page = "freq_menu" THEN Tg_handle_freq_menu(s, cmd)
    ELSE IF s.page = "freq_edit" THEN Tg_handle_freq_edit(s, cmd)
    ELSE IF s.page = "special_freqs" THEN Tg_handle_special_freqs(s, cmd)
    ELSE IF s.page = "special_tones" THEN Tg_handle_special_tones(s, cmd)
    ELSE Tg_back_to_main(s)

\* ---- BuildJob and the worker thread ------------------------------------

\* BuildJob.start without the is_alive test.
Tg_build_start_NoAliveCheck(s) ==
    [st |-> [s EXCEPT !.done = FALSE, !.ok = FALSE, !.wphase = "start",
                      !.job = NoPattern,
                      !.threads = @ + 1, !.builds = @ + 1],
     started |-> TRUE]

\* BuildJob.start: refuses while the previous thread is alive.
Tg_build_start(s) ==
    IF s.wphase # "idle"
    THEN [st |-> [s EXCEPT !.refused = TRUE], started |-> FALSE]
    ELSE [st |-> [s EXCEPT !.done = FALSE, !.ok = FALSE, !.wphase = "start",
                           !.job = NoPattern,
                           !.threads = @ + 1, !.builds = @ + 1],
          started |-> TRUE]

\* _build_wav_for_selection: which generator the worker calls.
TgPatternKind(s) ==
    IF s.selection = "special_tone" /\ (\E i \in DOMAIN SPECIAL_TONES : SPECIAL_TONES[i] = s.special_tone_id)
    THEN s.special_tone_id
    ELSE "standard"

\* _build_wav_for_selection: the arguments of the generator called.
TgPatternArgs(s, kind) ==
    [kind |-> kind, freq |-> IF kind = "standard" THEN s.freq_hz ELSE 0, volume |-> s.volume]

\* The pattern the current parameters ask for.
TgWanted(s) == TgPatternArgs(s, TgPatternKind(s))

\* _start_audio_loop: Popen returns a running loop, or raises.
LoopOutcomes == {"ok", "raise"}

Tg_start_audio_loop(s, outcome) ==
    IF outcome = "ok"
    THEN [st |-> [s EXCEPT !.audio_proc = "alive", !.spawns = @ + 1, !.played = s.wav],
          raised |-> FALSE]
    ELSE [st |-> s, raised |-> TRUE]

\* handle_build_and_audio with no memory of whether a build failed: it
\* starts the loop after every finished build.
Tg_handle_build_and_audio_IgnoresOk(s, outcome) ==
    IF ~s.need_restart
    THEN [st |-> s, raised |-> FALSE]
    ELSE LET need_play == s.playing /\ s.ready /\ s.player
             s1 == Tg_stop_audio(s)
         IN  IF s1.building
             THEN IF s1.done
                  THEN LET s2 == [s1 EXCEPT !.building = FALSE] IN
                       IF need_play
                       THEN LET r == Tg_start_audio_loop(s2, outcome) IN
                            IF r.raised THEN r
                            ELSE [st |-> [r.st EXCEPT !.need_restart = FALSE],
                                  raised |-> FALSE]
                       ELSE [st |-> [s2 EXCEPT !.need_restart = FALSE], raised |-> FALSE]
                  ELSE [st |-> s1, raised |-> FALSE]
             ELSE [st |-> Tg_build_start([s1 EXCEPT !.building = TRUE]).st,
                   raised |-> FALSE]

\* main.handle_build_and_audio
Tg_handle_build_and_audio(s, outcome) ==
    IF ~s.need_restart
    THEN [st |-> s, raised |-> FALSE]
    ELSE LET need_play == s.playing /\ s.ready /\ s.player
             s1 == Tg_stop_audio(s)
         IN  IF s1.building
             THEN IF s1.done
                  THEN LET s2 == [s1 EXCEPT !.building = FALSE] IN
                       IF ~s2.ok
                       THEN [st |-> [Tg_fatal(Tg_emit_state([s2 EXCEPT !.playing = FALSE]))
                                        EXCEPT !.need_restart = FALSE],
                             raised |-> FALSE]
                       ELSE IF need_play
                       THEN LET r == Tg_start_audio_loop(s2, outcome) IN
                            IF r.raised THEN r
                            ELSE [st |-> [r.st EXCEPT !.need_restart = FALSE],
                                  raised |-> FALSE]
                       ELSE [st |-> [s2 EXCEPT !.need_restart = FALSE], raised |-> FALSE]
                  ELSE [st |-> s1, raised |-> FALSE]
             ELSE [st |-> Tg_build_start([s1 EXCEPT !.building = TRUE]).st,
                   raised |-> FALSE]

\* Tg_audio_mgmt without the test for a loop that has died.
Tg_audio_mgmt_NoLoopCheck(s, outcome) ==
    LET r == Tg_handle_build_and_audio(s, outcome) IN
    IF r.raised
    THEN Tg_emit_state(Tg_request_audio_restart([Tg_fatal(r.st) EXCEPT !.playing = FALSE]))
    ELSE r.st

\* main: the try block of the loop with its except clause.
Tg_audio_mgmt(s, outcome) ==
    LET r == Tg_handle_build_and_audio(s, outcome) IN
    IF r.raised
    THEN Tg_emit_state(Tg_request_audio_restart([Tg_fatal(r.st) EXCEPT !.playing = FALSE]))
    ELSE IF r.st.playing /\ r.st.audio_proc = "dead"
    THEN [Tg_request_audio_restart(r.st) EXCEPT !.loop_restarts = @ + 1]
    ELSE r.st

\* Tg_loop_tail that leaves the heartbeat out until the build is finished.
Tg_loop_tail_WaitsForBuild(s, outcome, hb) ==
    LET s1 == [Tg_audio_mgmt(s, outcome) EXCEPT !.hb = hb]
        s2 == IF hb /\ ~(s1.building /\ ~s1.done) THEN Tg_emit_state(s1) ELSE s1
    IN  IF s2.exiting THEN Tg_exit_path(s2) ELSE s2

\* main: the loop from handle_build_and_audio to the exit test; hb says
\* whether HEARTBEAT_S has elapsed since the last heartbeat.
Tg_loop_tail(s, outcome, hb) ==
    LET s1 == [Tg_audio_mgmt(s, outcome) EXCEPT !.hb = hb]
        s2 == IF hb THEN Tg_emit_state(s1) ELSE s1
    IN  IF s2.exiting THEN Tg_exit_path(s2) ELSE s2

\* ---- actions -----------------------------------------------------------
TgRest == UNCHANGED <<prog, ng, ngPc, uap, uapPc, lg, lgPc, stn, stnPc, rnd, rndPc, cfg, cfgPc, sb, sbPc, pg, pgPc, wv, wvPc, pm, pmPc, rg, rgPc>>
TgOthers == TgRest /\ UNCHANGED line

\* main: top of the loop, the exiting test before the commands are read.
TgTop ==
    /\ prog = "tone" /\ tgPc = "top"
    /\ tg' = LET s == TgBegin(tg, "none") IN
             IF s.exiting
             THEN Tg_request_audio_restart([s EXCEPT !.playing = FALSE])
             ELSE s
    /\ tgPc' = "cmds"
    /\ TgOthers

\* main: one line of the batch poll_lines returned is dispatched.
TgCommand(tok) ==
    /\ prog = "tone" /\ tgPc = "cmds"
    /\ tg.ncmds < MaxCmds
    /\ tg' = [Tg_dispatch(TgBegin(tg, tok), tok) EXCEPT !.ncmds = @ + 1]
    /\ tgPc' = "cmds"
    /\ TgOthers

\* main: the batch is finished; the rest of the iteration runs.
TgTick(outcome, hb) ==
    /\ prog = "tone" /\ tgPc = "cmds"
    /\ tg' = Tg_loop_tail(TgBegin(tg, "none"), outcome, hb)
    /\ tgPc' = IF tg'.exiting THEN "exited" ELSE "top"
    /\ TgOthers

\* main._sig_handler
TgSignal ==
    /\ prog = "tone" /\ tgPc \in {"top", "cmds"}
    /\ ~tg.exiting
    /\ tg' = [TgBegin(tg, "none") EXCEPT !.exiting = TRUE, !.cause = "signal"]
    /\ UNCHANGED tgPc
    /\ TgOthers

\* The /bin/sh loop exits on its own.
TgSinkDies ==
    /\ prog = "tone" /\ tgPc \in {"top", "cmds"}
    /\ tg.audio_proc = "alive"
    /\ tg.loop_restarts < MaxLoopRestarts
    /\ tg' = [TgBegin(tg, "none") EXCEPT !.audio_proc = "dead"]
    /\ UNCHANGED tgPc
    /\ TgOthers

\* Worker thread: _build_wav_for_selection reads selection and special_tone_id.
TgWorkerDispatch ==
    /\ prog = "tone" /\ tgPc \in {"top", "cmds"}
    /\ tg.wphase = "start"
    /\ tg' = [TgBegin(tg, "none") EXCEPT !.wphase = "dispatched",
                                         !.job = [NoPattern EXCEPT !.kind = TgPatternKind(tg)]]
    /\ UNCHANGED tgPc
    /\ TgOthers

\* Worker thread: the arguments of the generator are read from st.
TgWorkerArgs ==
    /\ prog = "tone" /\ tgPc \in {"top", "cmds"}
    /\ tg.wphase = "dispatched"
    /\ tg' = [TgBegin(tg, "none") EXCEPT !.wphase = "run",
                                         !.job = TgPatternArgs(tg, tg.job.kind)]
    /\ UNCHANGED tgPc
    /\ TgOthers

\* Worker thread: the generator returns after os.replace; runner sets ok, done.
TgWorkerFinish ==
    /\ prog = "tone" /\ tgPc \in {"top", "cmds"}
    /\ tg.wphase = "run"
    /\ tg' = [TgBegin(tg, "none") EXCEPT !.wphase = "exit", !.wav = tg.job,
                                         !.tmp_file = FALSE,
                                         !.ok = TRUE, !.done = TRUE]
    /\ UNCHANGED tgPc
    /\ TgOthers

\* Worker thread: the generator raises; runner sets err, done.  partial:
\* it raised after PATTERN_WAV.tmp was opened.
TgWorkerFails(partial) ==
    /\ prog = "tone" /\ tgPc \in {"top", "cmds"}
    /\ tg.wphase = "run"
    /\ tg' = [TgBegin(tg, "none") EXCEPT !.wphase = "exit", !.done = TRUE,
                                         !.tmp_file = @ \/ partial]
    /\ UNCHANGED tgPc
    /\ TgOthers

\* Worker thread: runner returns; the thread is no longer alive.
TgWorkerExit ==
    /\ prog = "tone" /\ tgPc \in {"top", "cmds"}
    /\ tg.wphase = "exit"
    /\ tg' = [TgBegin(tg, "none") EXCEPT !.wphase = "idle", !.threads = @ - 1]
    /\ UNCHANGED tgPc
    /\ TgOthers

TgNext ==
    \/ TgTop
    \/ \E tok \in Tokens : TgCommand(tok)
    \/ \E o \in LoopOutcomes, hb \in BOOLEAN : TgTick(o, hb)
    \/ TgSignal
    \/ TgSinkDies
    \/ TgWorkerDispatch
    \/ TgWorkerArgs
    \/ TgWorkerFinish
    \/ \E partial \in BOOLEAN : TgWorkerFails(partial)
    \/ TgWorkerExit

\* ========================================================================
\* uap_caller
\* ========================================================================
\* The module globals.  player: _pick_player finds a player; ready:
\* signature_is_ready(); tmp: OUT_TMP exists; builder: the state of the
\* process _builder_proc refers to; builders: the builder subprocesses that
\* are alive.
UapState(player, ready) ==
    [ player    |-> player,
      ready     |-> ready,
      tmp       |-> FALSE,
      building  |-> FALSE,
      builder   |-> "none",
      builders  |-> 0,
      play_proc |-> "none",
      nbuilds   |-> 0,
      out       |-> << >>,
      spawns    |-> 0,
      cmd       |-> "none" ]

UapBegin(s, cmd) == [s EXCEPT !.out = << >>, !.spawns = 0, !.cmd = cmd]

UapEmit(s, type) == [s EXCEPT !.out = Append(@, [type |-> type])]

Uap_stop_playback(s) == [s EXCEPT !.play_proc = "none"]

Uap_start_playback_loop(s) ==
    [Uap_stop_playback(s) EXCEPT !.play_proc = "alive", !.spawns = @ + 1]

\* _stop_builder: terminates the builder and drops the handle.
Uap_stop_builder(s) ==
    [s EXCEPT !.builder = "none",
              !.builders = IF s.builder = "alive" THEN @ - 1 ELSE @]

\* start_build that leaves OUT_WAV and META_JSON of the last build in place.
Uap_start_build_KeepsSignature(s, force_rebuild) ==
    IF s.building
    THEN s
    ELSE LET s1 == Uap_stop_playback([s EXCEPT !.building = TRUE])
             s2 == IF force_rebuild THEN [s1 EXCEPT !.tmp = FALSE] ELSE s1
         IN  [UapEmit(UapEmit(s2, "page"), "build")
                 EXCEPT !.builder = "alive", !.builders = @ + 1, !.nbuilds = @ + 1]

\* start_build
Uap_start_build(s, force_rebuild) ==
    IF s.building
    THEN s
    ELSE LET s1 == Uap_stop_playback([s EXCEPT !.building = TRUE])
             s2 == IF force_rebuild THEN [s1 EXCEPT !.ready = FALSE, !.tmp = FALSE] ELSE s1
         IN  [UapEmit(UapEmit(s2, "page"), "build")
                 EXCEPT !.builder = "alive", !.builders = @ + 1, !.nbuilds = @ + 1]

\* handle_cmd; back ends the process in _hard_exit.
Uap_handle_cmd(s, cmd) ==
    IF cmd = "select"
    THEN IF s.building THEN s
         ELSE IF s.play_proc = "alive" THEN Uap_stop_playback(s)
         ELSE IF ~s.ready THEN UapEmit(s, "fatal")
         ELSE Uap_start_playback_loop(s)
    ELSE IF cmd = "select_hold" THEN Uap_start_build(s, TRUE)
    ELSE IF cmd = "back" THEN UapEmit(Uap_stop_playback(Uap_stop_builder(s)), "exit")
    ELSE s

\* main: the builder completion branch of the loop; finalize tells whether
\* OUT_TMP.replace and write_meta go through.
Uap_completion(s, finalize) ==
    IF s.builder \in {"exit0", "exit1"}
    THEN LET s1 == [Uap_stop_builder(s) EXCEPT !.building = FALSE] IN
         IF s.builder = "exit0" /\ s.tmp
         THEN IF finalize
              THEN UapEmit([s1 EXCEPT !.tmp = FALSE, !.ready = TRUE], "page")
              ELSE UapEmit(s1, "fatal")
         ELSE UapEmit(s1, "fatal")
    ELSE s

\* main up to the loop: hello, player preflight, build when not ready.
Uap_main_start(s) ==
    LET s1 == UapEmit(s, "hello") IN
    IF ~s.player THEN UapEmit(UapEmit(s1, "fatal"), "exit")
    ELSE IF s.ready THEN UapEmit(s1, "page")
    ELSE Uap_start_build(s1, FALSE)

\* ---- actions -----------------------------------------------------------
UapRest == UNCHANGED <<prog, ng, ngPc, tg, tgPc, lg, lgPc, stn, stnPc, rnd, rndPc, cfg, cfgPc, sb, sbPc, pg, pgPc, wv, wvPc, pm, pmPc, rg, rgPc>>
UapOthers == UapRest /\ UNCHANGED line

UapCommand(tok) ==
    /\ prog = "uap" /\ uapPc = "loop"
    /\ tok = "select_hold" => uap.nbuilds < MaxBuilds
    /\ uap' = Uap_handle_cmd(UapBegin(uap, tok), tok)
    /\ uapPc' = IF tok = "back" THEN "exited" ELSE "loop"
    /\ UapOthers

UapCompletion(finalize) ==
    /\ prog = "uap" /\ uapPc = "loop"
    /\ uap' = Uap_completion(UapBegin(uap, "none"), finalize)
    /\ UNCHANGED uapPc
    /\ UapOthers

\* The builder subprocess ends with return code rc; on 0 it has written OUT_TMP.
UapBuilderExits(rc) ==
    /\ prog = "uap" /\ uapPc = "loop"
    /\ uap.builder = "alive"
    /\ uap' = [UapBegin(uap, "none") EXCEPT
                  !.builder = IF rc = 0 THEN "exit0" ELSE "exit1",
                  !.builders = @ - 1,
                  !.tmp = IF rc = 0 THEN TRUE ELSE @]
    /\ UNCHANGED uapPc
    /\ UapOthers

\* The player process ends (end of file with paplay, or a failure).
UapPlayerEnds ==
    /\ prog = "uap" /\ uapPc = "loop"
    /\ uap.play_proc = "alive"
    /\ uap' = [UapBegin(uap, "none") EXCEPT !.play_proc = "dead"]
    /\ UNCHANGED uapPc
    /\ UapOthers

\* _sig_handler, or end of input on stdin: _hard_exit.
UapTerminate ==
    /\ prog = "uap" /\ uapPc = "loop"
    /\ uap' = UapEmit(Uap_stop_playback(Uap_stop_builder(UapBegin(uap, "none"))), "exit")
    /\ uapPc' = "exited"
    /\ UapOthers

UapNext ==
    \/ \E tok \in Tokens : UapCommand(tok)
    \/ \E f \in BOOLEAN : UapCompletion(f)
    \/ \E rc \in {0, 1} : UapBuilderExits(rc)
    \/ UapPlayerEnds
    \/ UapTerminate

\* ========================================================================
\* legacy noise generator (src/Noise Generator/run.py)
\* ========================================================================
LG_INIT_VOLUME == 80
LG_INIT_PULSE_MS == 200
LG_INIT_DUTY == 50
LG_VOLUME_STEP == 5
LG_PULSE_STEP == 50
LG_PULSE_MIN == 50
LG_PULSE_MAX == 2000
LG_DUTY_STEP == 5
LG_DUTY_MIN == 5
LG_DUTY_MAX == 95
LG_SETTINGS_ROWS == 4

NOISE_TYPES == <<"White", "Pink", "Brown">>

\* NoiseState() with the locals screen, menu_sel and set_sel of main and the
\* AudioStream: proc is its sink process ("none", "alive", or "dead" once it
\* has exited), backend whether pw-cat or aplay is installed, booted whether
\* the start-up dead zone is over.  napplied counts the events handled, cmd
\* is the last one; spawns, kills and wfail record what the last iteration
\* did to the sink.
NoiseState ==
    [ noise_idx |-> 0,
      playing   |-> FALSE,
      volume    |-> LG_INIT_VOLUME,
      pulse_on  |-> FALSE,
      pulse_ms  |-> LG_INIT_PULSE_MS,
      duty      |-> LG_INIT_DUTY,
      screen    |-> "menu",
      menu_sel  |-> 0,
      set_sel   |-> 0,
      break     |-> FALSE,
      napplied  |-> 0,
      cmd       |-> "none",
      proc      |-> "none",
      backend   |-> TRUE,
      booted    |-> FALSE,
      spawns    |-> 0,
      kills     |-> 0,
      wfail     |-> FALSE ]

LgRest == UNCHANGED <<prog, ng, ngPc, tg, tgPc, uap, uapPc, stn, stnPc, rnd, rndPc, cfg, cfgPc, sb, sbPc, pg, pgPc, wv, wvPc, pm, pmPc, rg, rgPc>>
LgOthers == LgRest /\ UNCHANGED line

Lg_handle_menu(s, ev) ==
    IF ev = "up" THEN [s EXCEPT !.menu_sel = (@ - 1) % Len(NOISE_TYPES)]
    ELSE IF ev = "down" THEN [s EXCEPT !.menu_sel = (@ + 1) % Len(NOISE_TYPES)]
    ELSE IF ev = "select"
    THEN [s EXCEPT !.noise_idx = s.menu_sel, !.playing = FALSE, !.screen = "player"]
    ELSE IF ev = "back" THEN [s EXCEPT !.playing = FALSE, !.break = TRUE]
    ELSE s

Lg_handle_player(s, ev) ==
    IF ev = "select" THEN [s EXCEPT !.playing = ~@]
    ELSE IF ev = "select_hold" THEN [s EXCEPT !.screen = "settings", !.set_sel = 0]
    ELSE IF ev = "up" THEN [s EXCEPT !.volume = clamp(@ + LG_VOLUME_STEP, 0, 100)]
    ELSE IF ev = "down" THEN [s EXCEPT !.volume = clamp(@ - LG_VOLUME_STEP, 0, 100)]
    ELSE IF ev = "back" THEN [s EXCEPT !.playing = FALSE, !.screen = "menu"]
    ELSE s

Lg_edit_item(s) ==
    IF s.set_sel = 0 THEN [s EXCEPT !.pulse_on = ~@]
    ELSE IF s.set_sel = 1
    THEN [s EXCEPT !.pulse_ms = clamp(@ + LG_PULSE_STEP, LG_PULSE_MIN, LG_PULSE_MAX)]
    ELSE IF s.set_sel = 2
    THEN [s EXCEPT !.duty = clamp(@ + LG_DUTY_STEP, LG_DUTY_MIN, LG_DUTY_MAX)]
    ELSE IF s.set_sel = 3
    THEN [s EXCEPT !.volume = clamp(@ + LG_VOLUME_STEP, 0, 100)]
    ELSE s

Lg_handle_settings(s, ev) ==
    IF ev = "up" THEN [s EXCEPT !.set_sel = (@ - 1) % LG_SETTINGS_ROWS]
    ELSE IF ev = "down" THEN [s EXCEPT !.set_sel = (@ + 1) % LG_SETTINGS_ROWS]
    ELSE IF ev = "select" THEN Lg_edit_item(s)
    ELSE IF ev = "select_hold" \/ ev = "back" THEN [s EXCEPT !.screen = "player"]
    ELSE s

\* main: the "Handle UI events" part of the loop.
Lg_handle_event(s, ev) ==
    IF s.screen = "menu" THEN Lg_handle_menu(s, ev)
    ELSE IF s.screen = "player" THEN Lg_handle_player(s, ev)
    ELSE IF s.screen = "settings" THEN Lg_handle_settings(s, ev)
    ELSE s

\* The start of one loop iteration.
LgBegin(s) == [s EXCEPT !.spawns = 0, !.kills = 0, !.wfail = FALSE, !.cmd = "none"]

\* AudioStream.start; raised when Popen raises.
Lg_audio_start(s, popen) ==
    IF s.proc = "alive" THEN [st |-> s, raised |-> FALSE]
    ELSE IF ~s.backend THEN [st |-> [s EXCEPT !.proc = "none"], raised |-> FALSE]
    ELSE IF popen = "oserror" THEN [st |-> s, raised |-> TRUE]
    ELSE [st |-> [s EXCEPT !.proc = "alive", !.spawns = @ + 1], raised |-> FALSE]

\* AudioStream.stop
Lg_audio_stop(s) ==
    [s EXCEPT !.proc = "none", !.kills = IF s.proc = "none" THEN @ ELSE @ + 1]

\* AudioStream.write: FALSE without a live sink or when the pipe write fails.
Lg_audio_write(s, wr) == s.proc = "alive" /\ wr

\* main: the "Audio tick" part of the loop.
Lg_audio_tick(s, popen, wr) ==
    IF s.playing
    THEN LET r == Lg_audio_start(s, popen) IN
         IF r.raised THEN r
         ELSE IF r.st.proc = "none"
         THEN [st |-> [r.st EXCEPT !.playing = FALSE], raised |-> FALSE]
         ELSE IF Lg_audio_write(r.st, wr) THEN r
         ELSE [st |-> Lg_audio_stop([r.st EXCEPT !.playing = FALSE, !.wfail = TRUE]),
               raised |-> FALSE]
    ELSE [st |-> IF s.proc # "none" THEN Lg_audio_stop(s) ELSE s, raised |-> FALSE]

\* main: the finally clause.
Lg_finally(s) == Lg_audio_stop([s EXCEPT !.playing = FALSE])

\* main: the start-up dead zone drops back and select.
Lg_dead_zone(ev, booted) ==
    IF ev # "none" /\ ~booted /\ ev \in {"back", "select"} THEN "none" ELSE ev

\* main: one iteration of the loop: read_event, the screen handlers, the
\* audio tick.  elapsed: the dead zone is over by now.
LgIterate(ev, elapsed, popen, wr) ==
    /\ prog = "legacy" /\ lgPc = "loop"
    /\ ev # "none" => lg.napplied < MaxLgEvents
    /\ lg.booted => elapsed
    /\ LET b  == lg.booted \/ elapsed
           e1 == Lg_dead_zone(ev, b)
           s0 == [LgBegin(lg) EXCEPT !.booted = b, !.cmd = e1,
                     !.napplied = IF ev # "none" THEN @ + 1 ELSE @]
           s1 == IF e1 # "none" THEN Lg_handle_event(s0, e1) ELSE s0
           r  == Lg_audio_tick(s1, popen, wr)
       IN  /\ (s1.break \/ ~s1.playing \/ s1.proc = "alive" \/ ~s1.backend)
                 => popen = "ok"
           /\ (s1.break \/ ~s1.playing \/ ~s1.backend) => wr
           /\ IF s1.break
              THEN lg' = Lg_finally(s1) /\ lgPc' = "done"
              ELSE IF r.raised
              THEN lg' = Lg_finally(r.st) /\ lgPc' = "crashed"
              ELSE lg' = r.st /\ lgPc' = "loop"
    /\ LgOthers

\* The sink process exits on its own.
LgSinkDies ==
    /\ prog = "legacy" /\ lgPc = "loop"
    /\ lg.proc = "alive"
    /\ lg' = [LgBegin(lg) EXCEPT !.proc = "dead"]
    /\ UNCHANGED lgPc
    /\ LgOthers

LgNext ==
    \/ \E ev \in Tokens \cup {"none"}, elapsed \in BOOLEAN,
          popen \in {"ok", "oserror"}, wr \in BOOLEAN :
          LgIterate(ev, elapsed, popen, wr)
    \/ LgSinkDies

\* ========================================================================
\* streaming tone generator
\* ========================================================================
STN_INIT_VOLUME == 70
STN_VOLUME_STEP == 5

MAIN_ITEMS == <<"Steady", "Pulse", "Sweep">>

\* str.upper of a menu item
StnUpper(item) ==
    IF item = "Steady" THEN "STEADY" ELSE IF item = "Pulse" THEN "PULSE" ELSE "SWEEP"

\* ToneState() with the locals state, menu_sel and proc of main.  aplay is
\* APLAY_PATH; back_blocked holds while now < back_block_until.  fails counts
\* the failed writes in a row; spawns, kills and cmd record the last iteration.
ToneState ==
    [ mode         |-> "STEADY",
      playing      |-> FALSE,
      volume       |-> STN_INIT_VOLUME,
      state        |-> "MENU",
      menu_sel     |-> 0,
      proc         |-> "none",
      aplay        |-> TRUE,
      back_blocked |-> FALSE,
      break        |-> FALSE,
      fails        |-> 0,
      spawns       |-> 0,
      kills        |-> 0,
      cmd          |-> "none" ]

StnRest == UNCHANGED <<prog, ng, ngPc, tg, tgPc, uap, uapPc, lg, lgPc, rnd, rndPc, cfg, cfgPc, sb, sbPc, pg, pgPc, wv, wvPc, pm, pmPc, rg, rgPc>>
StnOthers == StnRest /\ UNCHANGED line

StnBegin(s, ev) == [s EXCEPT !.spawns = 0, !.kills = 0, !.cmd = ev]

\* stop_proc, followed by proc = None
Stn_stop_proc(s) ==
    [s EXCEPT !.proc = "none", !.kills = IF s.proc = "alive" THEN @ + 1 ELSE @]

\* main: the STATE_MENU branch.
Stn_handle_menu(s, ev) ==
    IF ev = "up" THEN [s EXCEPT !.menu_sel = (@ - 1) % Len(MAIN_ITEMS)]
    ELSE IF ev = "down" THEN [s EXCEPT !.menu_sel = (@ + 1) % Len(MAIN_ITEMS)]
    ELSE IF ev = "select"
    THEN [s EXCEPT !.mode = StnUpper(MAIN_ITEMS[s.menu_sel + 1]),
                   !.playing = FALSE, !.fails = 0, !.state = "PLAY"]
    ELSE IF ev = "back" /\ ~s.back_blocked THEN [s EXCEPT !.break = TRUE]
    ELSE s

\* main: the STATE_PLAY branch.
Stn_handle_play(s, ev) ==
    IF ev = "up" THEN [s EXCEPT !.volume = clamp(@ + STN_VOLUME_STEP, 0, 100)]
    ELSE IF ev = "down" THEN [s EXCEPT !.volume = clamp(@ - STN_VOLUME_STEP, 0, 100)]
    ELSE IF ev = "select" THEN [s EXCEPT !.playing = ~@, !.fails = 0]
    ELSE IF ev = "back"
    THEN [Stn_stop_proc(s) EXCEPT !.playing = FALSE, !.fails = 0,
                                  !.state = "MENU", !.back_blocked = TRUE]
    ELSE s

\* start_aplay; raised when Popen raises.
Stn_start_aplay(s, popen) ==
    IF ~s.aplay THEN [st |-> [s EXCEPT !.proc = "none"], raised |-> FALSE]
    ELSE IF popen = "oserror" THEN [st |-> s, raised |-> TRUE]
    ELSE [st |-> [s EXCEPT !.proc = "alive", !.spawns = @ + 1], raised |-> FALSE]

\* main: the audio tick; the write to proc.stdin succeeds iff wr.
Stn_audio_tick(s, popen, wr) ==
    IF s.playing
    THEN LET r == IF s.proc # "alive" THEN Stn_start_aplay(s, popen)
                  ELSE [st |-> s, raised |-> FALSE] IN
         IF r.raised \/ r.st.proc = "none" THEN r
         ELSE IF wr THEN [st |-> [r.st EXCEPT !.fails = 0], raised |-> FALSE]
         ELSE [st |-> [Stn_stop_proc(r.st) EXCEPT !.fails = @ + 1], raised |-> FALSE]
    ELSE [st |-> IF s.proc # "none" THEN Stn_stop_proc(s) ELSE s, raised |-> FALSE]

\* main: after the loop.
Stn_exit(s) == Stn_stop_proc([s EXCEPT !.playing = FALSE])

\* main: one iteration of the loop.  expired: back_block_until has passed;
\* due: a chunk period has gone by since the last audio tick.
StnIterate(ev, expired, due, popen, wr) ==
    /\ prog = "stream" /\ stnPc = "loop"
    /\ ~stn.back_blocked => expired
    /\ LET s0 == [StnBegin(stn, ev) EXCEPT !.back_blocked = @ /\ ~expired]
           s1 == IF s0.state = "MENU" THEN Stn_handle_menu(s0, ev)
                 ELSE Stn_handle_play(s0, ev)
           r  == Stn_audio_tick(s1, popen, wr)
           starts == ~s1.break /\ due /\ s1.playing /\ s1.proc # "alive" /\ s1.aplay
           writes == ~s1.break /\ due /\ s1.playing /\ (s1.proc = "alive" \/ s1.aplay)
       IN  /\ ~starts => popen = "ok"
           /\ ~writes => wr
           /\ ~wr => s1.fails < MaxSinkFails
           /\ IF s1.break
              THEN stn' = Stn_exit(s1) /\ stnPc' = "done"
              ELSE IF ~due
              THEN stn' = s1 /\ stnPc' = "loop"
              ELSE IF r.raised
              THEN stn' = r.st /\ stnPc' = "crashed"
              ELSE stn' = r.st /\ stnPc' = "loop"
    /\ StnOthers

\* aplay exits on its own.
StnSinkDies ==
    /\ prog = "stream" /\ stnPc = "loop"
    /\ stn.proc = "alive"
    /\ stn' = [StnBegin(stn, "none") EXCEPT !.proc = "dead"]
    /\ UNCHANGED stnPc
    /\ StnOthers

StnNext ==
    \/ \E ev \in Tokens \cup {"none"}, expired \in BOOLEAN, due \in BOOLEAN,
          popen \in {"ok", "oserror"}, wr \in BOOLEAN :
          StnIterate(ev, expired, due, popen, wr)
    \/ StnSinkDies

\* ========================================================================
\* sample rendering
\* ========================================================================
\* Float samples are counted in fixed point: RAW_UNIT stands for 1.0.
RAW_UNIT == 4
INT16_MAX == 32767

\* int() of Python: n / d rounded toward zero (d > 0).
Trunc(n, d) == IF n >= 0 THEN n \div d ELSE -((-n) \div d)

\* _int16 of the noise generator, and the same clamp-and-scale in
\* render_block and _write_wav_from_samples: the sample num / den is clamped
\* to [-1, 1], multiplied by 32767 and truncated.
Int16(num, den) ==
    IF num > den THEN INT16_MAX
    ELSE IF num < -den THEN -INT16_MAX
    ELSE Trunc(num * INT16_MAX, den)

\* Ng_write_wav_sample that adds the headroom factor instead of multiplying.
Ng_write_wav_sample_HeadroomAdded(s, volume_pct) ==
    Int16(s * volume_pct * 10 + s * 800, RAW_UNIT * 1000)

\* _write_wav: amp = (volume_pct / 100.0) * 0.8; v = _int16(s * amp)
Ng_write_wav_sample(s, volume_pct) == Int16(s * volume_pct * 8, RAW_UNIT * 1000)

\* render_block: the pulse gate; in_duty: ph < period * duty.
Lg_gate(pulse_on, in_duty) == IF pulse_on /\ ~in_duty THEN 0 ELSE 1

\* render_block: vol = max(0, min(1, volume / 100)); amp = vol * gate;
\* s = int(_clamp1(x * amp) * 32767)
Lg_render_sample(x, volume, gate) ==
    Int16(x * clamp(volume, 0, 100) * gate, RAW_UNIT * 100)

\* The gain of a pattern of the tone generator, in percent.
TgGain(kind) ==
    IF kind = "standard" THEN 95 ELSE IF kind = "sweep" THEN 85 ELSE 75

\* _gen_standard_tone / _gen_sweep / _gen_shepard: volume = _clamp(volume, 0,
\* 100); amp = (volume / 100.0) * gain; the generator yields w * amp, where w
\* is the sine (or the weighted mean of sines); _write_wav_from_samples writes
\* int(max(-1, min(1, s)) * 32767).
Tg_gen_sample(w, volume, kind) ==
    Int16(w * clamp(volume, 0, 100) * TgGain(kind), RAW_UNIT * 100 * 100)

\* The volumes a render is called with.
RenderVolumes == {0, 5, 70, 100}

\* Values of a waveform before the volume is applied: noise within [-1, 1],
\* the pink and brown filters of the legacy noise generator beyond it.
RawSamples == -(RAW_UNIT + 2) .. (RAW_UNIT + 2)
UnitSamples == -RAW_UNIT .. RAW_UNIT

\* The render calls: the generator, its mode, the volume and (legacy noise
\* generator) the position of the pulse gate.
RenderJobs ==
    [module : {"noise"}, kind : {"white", "pink", "brown", "sweep"},
     volume : RenderVolumes, gate : {"off"}]
    \cup [module : {"legacy"}, kind : {"White", "Pink", "Brown"},
          volume : RenderVolumes, gate : {"off", "open", "closed"}]
    \cup [module : {"tone"}, kind : {"standard", "sweep", "shepard"},
          volume : RenderVolumes, gate : {"off"}]

NoJob == [module |-> "none", kind |-> "none", volume |-> 0, gate |-> "off"]

\* A render in progress: raw holds the waveform values, pcm the samples written.
\* builds holds the patterns built so far with the arguments of the job and
\* the length n; left is the generator object the last build dropped.
Render(job) ==
    [job |-> job, raw |-> <<>>, pcm |-> <<>>, n |-> 0, builds |-> <<>>, left |-> 0]

\* ---- random.Random ------------------------------------------------------
\* A generator object is a deterministic function of its seed; its stream is
\* represented by a 16-bit linear congruential sequence.
RNG_MOD == 65536
RNG_A == 25173
RNG_C == 13849

\* random.Random(seed) handed a generator object that is still around.
Random_Reused(seed, left) == left

\* random.Random(seed): a new generator object; left is the object the
\* previous build dropped.
Random(seed, left) == seed % RNG_MOD

RngNext(rng) == (RNG_A * rng + RNG_C) % RNG_MOD

\* rng.uniform(-1.0, 1.0) read off the generator's state.
Uniform(rng) == ((rng \div 256) % (2 * RAW_UNIT + 1)) - RAW_UNIT

RECURSIVE SumSeq(_)
SumSeq(q) == IF q = <<>> THEN 0 ELSE Head(q) + SumSeq(Tail(q))

Abs(v) == IF v < 0 THEN -v ELSE v

RECURSIVE MaxAbs(_)
MaxAbs(q) ==
    IF q = <<>> THEN 0
    ELSE LET m == MaxAbs(Tail(q)) IN IF Abs(Head(q)) > m THEN Abs(Head(q)) ELSE m

\* _gen_white: n draws.
RECURSIVE Ng_gen_white(_, _)
Ng_gen_white(n, rng) ==
    IF n = 0 THEN <<>>
    ELSE LET r1 == RngNext(rng) IN <<Uniform(r1)>> \o Ng_gen_white(n - 1, r1)

\* The generator after k draws.
RECURSIVE RngAfter(_, _)
RngAfter(rng, k) == IF k = 0 THEN rng ELSE RngAfter(RngNext(rng), k - 1)

NG_PINK_ROWS == 16

\* _gen_pink: the row the counter selects (number of trailing zero bits).
RECURSIVE PinkRow(_, _)
PinkRow(c, row) ==
    IF c % 2 = 0 /\ row < NG_PINK_ROWS THEN PinkRow(c \div 2, row + 1) ELSE row

\* _gen_pink: the loop body for counter = 1 .. n.
RECURSIVE Ng_gen_pink_loop(_, _, _, _)
Ng_gen_pink_loop(counter, n, rows, rng) ==
    IF counter > n THEN <<>>
    ELSE LET row   == PinkRow(counter, 0)
             r1    == IF row < NG_PINK_ROWS THEN RngNext(rng) ELSE rng
             rows1 == IF row < NG_PINK_ROWS
                      THEN [rows EXCEPT ![row + 1] = Uniform(r1)] ELSE rows
             r2    == RngNext(r1)
         IN  <<Trunc(SumSeq(rows1) + Uniform(r2), NG_PINK_ROWS + 1)>>
                 \o Ng_gen_pink_loop(counter + 1, n, rows1, r2)

\* _gen_pink
Ng_gen_pink(n, rng) ==
    Ng_gen_pink_loop(1, n, Ng_gen_white(NG_PINK_ROWS, rng), RngAfter(rng, NG_PINK_ROWS))

\* _gen_brown: the walk x += u * 0.02; x *= 0.999, counted in units of
\* 0.02 / RAW_UNIT.
RECURSIVE Ng_gen_brown_walk(_, _, _)
Ng_gen_brown_walk(n, x, rng) ==
    IF n = 0 THEN <<>>
    ELSE LET r1 == RngNext(rng)
             x1 == Trunc((x + Uniform(r1) * 1000) * 999, 1000)
         IN  <<x1>> \o Ng_gen_brown_walk(n - 1, x1, r1)

\* _gen_brown: the walk scaled to peak 1.
Ng_gen_brown(n, rng) ==
    LET out == Ng_gen_brown_walk(n, 0, rng)
        mx  == MaxAbs(out)
    IN  [i \in 1 .. Len(out) |-> IF mx = 0 THEN 0 ELSE Trunc(out[i] * RAW_UNIT, mx)]

NG_SAMPLE_RATE == 44100

\* _apply_fade: linear ramps of fade_n samples at both ends.
Ng_apply_fade(mono, fade_ms) ==
    IF mono = <<>> THEN mono
    ELSE LET N  == Len(mono)
             f0 == (NG_SAMPLE_RATE * fade_ms) \div 1000
             f1 == IF f0 < N \div 4 THEN f0 ELSE N \div 4
             fade_n == IF f1 < 1 THEN 1 ELSE f1
         IN  [k \in 1 .. N |->
                 LET i == k - 1 IN
                 IF i < fade_n THEN Trunc(mono[k] * i, fade_n)
                 ELSE IF i >= N - fade_n THEN Trunc(mono[k] * (N - 1 - i), fade_n)
                 ELSE mono[k]]

NG_SEED_LOOP == 725184
NG_SEED_MODE == 1337
NG_SEED_TICK == 5330757
NG_SEED_TICK_VOL == 17
NG_SEED_TICK_K == 999
NG_FADE_LOOP_MS == 35
NG_FADE_TICK_MS == 8
NG_TICK_VARIANTS == 3

\* MODES.index(mode)
ModesIndex(mode) == CHOOSE i \in 0 .. Len(MODES) - 1 : MODES[i + 1] = mode

\* _build_continuous_noise for n = int(SAMPLE_RATE * seconds) samples: the
\* pattern and the generator object it leaves behind.
Ng_build_continuous_noise(mode, volume, n, left) ==
    LET rng  == Random(NG_SEED_LOOP + volume + ModesIndex(mode) * NG_SEED_MODE, left)
        mono == IF mode = "white" THEN Ng_gen_white(n, rng)
                ELSE IF mode = "pink" THEN Ng_gen_pink(n, rng)
                ELSE Ng_gen_brown(n, rng)
    IN  [mono |-> Ng_apply_fade(mono, NG_FADE_LOOP_MS), left |-> RngAfter(rng, n)]

\* _build_sweep_ticks: x * 0.9 clamped to [-1, 1].
Ng_soften(x) == clamp(Trunc(x * 9, 10), -RAW_UNIT, RAW_UNIT)

\* _build_sweep_ticks for n = int(SAMPLE_RATE * seconds) samples per tick.
Ng_build_sweep_ticks(volume, n, variants, left) ==
    LET rng(k) == Random(NG_SEED_TICK + volume * NG_SEED_TICK_VOL + k * NG_SEED_TICK_K,
                         left)
        tick(k) == LET w == Ng_gen_white(n, rng(k)) IN
                   Ng_apply_fade([i \in 1 .. Len(w) |-> Ng_soften(w[i])],
                                 NG_FADE_TICK_MS)
    IN  [mono |-> [k \in 1 .. variants |-> tick(k - 1)],
         left |-> RngAfter(rng(variants - 1), n)]

\* The pattern _write_loop_wav or _write_tick_wavs builds for the job.
Ng_build(job, n, left) ==
    IF job.kind = "sweep"
    THEN Ng_build_sweep_ticks(job.volume, n, NG_TICK_VARIANTS, left)
    ELSE Ng_build_continuous_noise(job.kind, job.volume, n, left)

RndRest == UNCHANGED <<prog, ng, ngPc, tg, tgPc, uap, uapPc, lg, lgPc, stn, stnPc, cfg, cfgPc, sb, sbPc, pg, pgPc, wv, wvPc, pm, pmPc, rg, rgPc>>
RndOthers == RndRest /\ UNCHANGED line

\* The sample one generator writes for the waveform value x.
RenderSample(job, x) ==
    IF job.module = "noise" THEN Ng_write_wav_sample(x, job.volume)
    ELSE IF job.module = "legacy"
    THEN Lg_render_sample(x, job.volume, Lg_gate(job.gate # "off", job.gate = "open"))
    ELSE Tg_gen_sample(x, job.volume, job.kind)

\* One pass of the sample loop of _write_wav, render_block or
\* _write_wav_from_samples.
RenderFrame(x) ==
    /\ prog = "render" /\ rndPc = "frames"
    /\ Len(rnd.pcm) < MaxFrames
    /\ rnd.job.module = "tone" => x \in UnitSamples
    /\ rnd' = [rnd EXCEPT !.raw = Append(@, x),
                          !.pcm = Append(@, RenderSample(rnd.job, x))]
    /\ UNCHANGED rndPc
    /\ RndOthers

\* _write_loop_wav / _write_tick_wavs build the pattern of the job once more,
\* with the same arguments.
RenderBuild(n) ==
    /\ prog = "render" /\ rndPc = "frames"
    /\ rnd.job.module = "noise"
    /\ Len(rnd.builds) < MaxRenders
    /\ rnd.n # 0 => n = rnd.n
    /\ LET r == Ng_build(rnd.job, n, rnd.left) IN
       rnd' = [rnd EXCEPT !.n = n, !.builds = Append(@, r.mono), !.left = r.left]
    /\ UNCHANGED rndPc
    /\ RndOthers

\* ========================================================================
\* The pulse gate of the legacy noise generator (src/Noise Generator/run.py)
\* ========================================================================
LG_RATE == 48000
LG_FRAME_SAMPLES == 960
\* time.sleep(0.02) at the end of an iteration, in ms.
LG_TICK_MS == 20

\* Samples of one pulse period.
LgPeriodSamples(pulse_ms) == (clamp(pulse_ms, 50, 2000) * LG_RATE) \div 1000

\* render_block: ph = (time.monotonic() - t0) % period; gate open iff
\* ph < period * duty.  now is the time since t0 in ms.
Lg_in_duty(pulse_ms, duty, now) ==
    (now % clamp(pulse_ms, 50, 2000)) * 100
        < clamp(pulse_ms, 50, 2000) * clamp(duty, 5, 95)

\* render_block: one gate for the whole block, taken from the clock when
\* the block is rendered; the result is the number of non-silent samples
\* among the first take samples of the block.
Lg_render_block(st, now, x, first, take) ==
    IF Lg_render_sample(x, st.volume,
                        Lg_gate(st.pulse_on, Lg_in_duty(st.pulse_ms, st.duty, now))) # 0
    THEN take ELSE 0

\* The settings the gate is rendered with.
PulseSettings ==
    [ pulse_on : {TRUE}, pulse_ms : {50, 60, 100}, duty : {5, 50, 95},
      volume : {5, 100} ]

\* A stream of blocks: now is the time since t0 in ms, total the samples
\* written so far, on the non-silent ones among them, both counted up to the
\* end of the first period of the stream.
PulseStream(st) ==
    [ st |-> st, now |-> 0, total |-> 0, on |-> 0, blocks |-> 0 ]

PgRest == UNCHANGED <<prog, ng, ngPc, tg, tgPc, uap, uapPc, lg, lgPc, stn, stnPc, rnd, rndPc, cfg, cfgPc, sb, sbPc, wv, wvPc, pm, pmPc, rg, rgPc>>
PgOthers == PgRest /\ UNCHANGED line

\* The audio tick of main: one block is rendered and written; late is the
\* time the iteration took beyond its sleep, x the noise sample of the block.
PulseBlock(late, x) ==
    /\ prog = "pulse" /\ pgPc = "stream"
    /\ pg.blocks < MaxBlocks
    /\ pg.total < LgPeriodSamples(pg.st.pulse_ms)
    /\ LET P == LgPeriodSamples(pg.st.pulse_ms)
           take == IF P - pg.total < LG_FRAME_SAMPLES THEN P - pg.total
                   ELSE LG_FRAME_SAMPLES
       IN  pg' = [pg EXCEPT !.on = @ + Lg_render_block(pg.st, pg.now, x, pg.total, take),
                            !.total = @ + take,
                            !.blocks = @ + 1,
                            !.now = @ + LG_TICK_MS + late]
    /\ UNCHANGED pgPc
    /\ PgOthers

PulseNext == \E late \in {0, 1, 5} : \E x \in {-RAW_UNIT, RAW_UNIT} : PulseBlock(late, x)

\* ========================================================================
\* The WAV writer of the tone generator (src/OLED/Modules/tone_generator/run.py)
\* ========================================================================
RATE_STD == 48000
RATE_SPEC == 24000
\* Durations in tenths of a second.
PATTERN_SECONDS_STD == 60
PATTERN_SECONDS_SWEEP == 80
PATTERN_SECONDS_SHEP == 100
PATTERN_SECONDS_MOTIF == 40
\* block_target_frames
TG_BLOCK_FRAMES == 2048

\* The rate and duration each generator passes to _write_wav_from_samples.
TgWavArgs(kind) ==
    IF kind = "standard"
    THEN [rate |-> RATE_STD, seconds |-> PATTERN_SECONDS_STD]
    ELSE IF kind \in {"sweep_asc", "sweep_des", "sweep_bell"}
    THEN [rate |-> RATE_SPEC, seconds |-> PATTERN_SECONDS_SWEEP]
    ELSE IF kind \in {"shepard_asc", "shepard_des"}
    THEN [rate |-> RATE_SPEC, seconds |-> PATTERN_SECONDS_SHEP]
    ELSE [rate |-> RATE_SPEC, seconds |-> PATTERN_SECONDS_MOTIF]

\* The generators _build_wav_for_selection can call.
WavKinds == {"standard"} \cup {SPECIAL_TONES[i] : i \in DOMAIN SPECIAL_TONES}

\* _write_wav_from_samples after wave.open: total_frames = int(rate *
\* seconds); i counts the samples taken from the generator, block the frames
\* not yet handed to writeframes, written the frames handed over; file is
\* PATTERN_WAV as a reader finds it.
WavWriter(kind) ==
    [ kind |-> kind, rate |-> TgWavArgs(kind).rate,
      total_frames |-> (TgWavArgs(kind).rate \div 10) * TgWavArgs(kind).seconds,
      i |-> 0, block |-> 0, written |-> 0,
      file |-> [nframes |-> 0, framerate |-> 0] ]

\* The for loop up to the next writeframes or to the break: every generator
\* yields without end, and the first sample is taken before total_frames is
\* looked at.
Tg_wav_block(w) ==
    LET left == IF w.total_frames - w.i < 1 THEN 1 ELSE w.total_frames - w.i
        room == TG_BLOCK_FRAMES - w.block
    IN  IF left >= room
        THEN [w EXCEPT !.i = @ + room, !.block = 0, !.written = @ + w.block + room]
        ELSE [w EXCEPT !.i = @ + left, !.block = @ + left]

\* The end of the writer that closes the file without the pending block.
Tg_wav_close_NoFlush(w) ==
    [w EXCEPT !.block = 0,
              !.file = [nframes |-> w.written, framerate |-> w.rate]]

\* if block: writeframes(block); the with block closes the file, which
\* patches the frame count into the header; os.replace.
Tg_wav_close(w) ==
    [w EXCEPT !.block = 0, !.written = @ + w.block,
              !.file = [nframes |-> w.written + w.block, framerate |-> w.rate]]

WvRest == UNCHANGED <<prog, ng, ngPc, tg, tgPc, uap, uapPc, lg, lgPc, stn, stnPc, rnd, rndPc, cfg, cfgPc, sb, sbPc, pg, pgPc, pm, pmPc, rg, rgPc>>
WvOthers == WvRest /\ UNCHANGED line

\* The loop runs to its next writeframes or to its break.
WavBlock ==
    /\ prog = "wav" /\ wvPc = "loop"
    /\ wv' = Tg_wav_block(wv)
    /\ wvPc' = IF wv'.i >= wv.total_frames THEN "break" ELSE "loop"
    /\ WvOthers

\* The rest of the function after the loop.
WavClose ==
    /\ prog = "wav" /\ wvPc = "break"
    /\ wv' = Tg_wav_close(wv)
    /\ wvPc' = "replaced"
    /\ WvOthers

WavNext == WavBlock \/ WavClose

\* ========================================================================
\* StdoutJSONPump of the launcher (src/OLED/app.py)
\* ========================================================================
\* The bytes of the child's stdout: "a" is a byte of a JSON text, "x" a byte
\* that makes its line no JSON text (or undecodable), "n" the newline.
PumpBytes == {"a", "x", "n"}

\* Index of the first newline of buf, 0 when there is none.
PumpNewline(buf) ==
    IF \E i \in 1 .. Len(buf) : buf[i] = "n"
    THEN CHOOSE i \in 1 .. Len(buf) :
             buf[i] = "n" /\ \A j \in 1 .. i - 1 : buf[j] # "n"
    ELSE 0

\* json.loads accepts the line.
PumpIsJSON(l) == l # <<>> /\ \A i \in 1 .. Len(l) : l[i] = "a"

\* pump: the inner while loop over the complete lines of buf.
RECURSIVE Pump_lines(_, _, _)
Pump_lines(buf, msgs, max_lines) ==
    IF PumpNewline(buf) # 0 /\ Len(msgs) < max_lines
    THEN LET k == PumpNewline(buf)
             l == SubSeq(buf, 1, k - 1)
             rest == SubSeq(buf, k + 1, Len(buf))
         IN  Pump_lines(rest, IF PumpIsJSON(l) THEN Append(msgs, l) ELSE msgs, max_lines)
    ELSE [buf |-> buf, msgs |-> msgs]

\* pump: the outer while loop; os.read gives what the pipe holds, up to
\* min(4096, max_bytes - drained) bytes, and raises BlockingIOError or
\* returns b"" when it holds nothing.
RECURSIVE Pump_drain(_, _, _, _, _, _)
Pump_drain(pipe, buf, msgs, drained, max_bytes, max_lines) ==
    LET want == IF max_bytes - drained < MaxChunk THEN max_bytes - drained ELSE MaxChunk
        n == IF Len(pipe) < want THEN Len(pipe) ELSE want
        r == Pump_lines(buf \o SubSeq(pipe, 1, n), msgs, max_lines)
    IN  IF drained >= max_bytes \/ n = 0
        THEN [pipe |-> pipe, buf |-> buf, msgs |-> msgs]
        ELSE IF Len(r.msgs) >= max_lines
        THEN [pipe |-> SubSeq(pipe, n + 1, Len(pipe)), buf |-> r.buf, msgs |-> r.msgs]
        ELSE Pump_drain(SubSeq(pipe, n + 1, Len(pipe)), r.buf, r.msgs,
                        drained + n, max_bytes, max_lines)

\* StdoutJSONPump.pump: nothing is done unless the selector reports the
\* descriptor readable (bytes in the pipe, or its end).
Pump_pump(p, max_bytes, max_lines) ==
    IF p.pipe = <<>> /\ ~p.eof
    THEN [pipe |-> p.pipe, buf |-> p.buf, msgs |-> <<>>]
    ELSE Pump_drain(p.pipe, p.buf, <<>>, 0, max_bytes, max_lines)

\* The pipe and the pump after __init__: pipe holds the bytes written and
\* not yet read, eof tells the child closed its end; written are all bytes
\* the child wrote, returned all messages pump returned, last those of the
\* last call and max_lines its argument.
PumpState ==
    [ pipe |-> <<>>, eof |-> FALSE, buf |-> <<>>, written |-> <<>>,
      returned |-> <<>>, last |-> <<>>, max_lines |-> 0, calls |-> 0 ]

PmRest == UNCHANGED <<prog, ng, ngPc, tg, tgPc, uap, uapPc, lg, lgPc, stn, stnPc, rnd, rndPc, cfg, cfgPc, sb, sbPc, pg, pgPc, wv, wvPc, rg, rgPc>>
PmOthers == PmRest /\ UNCHANGED line

\* The child writes a byte to its stdout.
PumpChildWrite(b) ==
    /\ prog = "pump" /\ pmPc = "run"
    /\ ~pm.eof /\ Len(pm.written) < MaxChildBytes
    /\ pm' = [pm EXCEPT !.pipe = Append(@, b), !.written = Append(@, b)]
    /\ UNCHANGED pmPc
    /\ PmOthers

\* The child closes its stdout (it exits).
PumpChildClose ==
    /\ prog = "pump" /\ pmPc = "run" /\ ~pm.eof
    /\ pm' = [pm EXCEPT !.eof = TRUE]
    /\ UNCHANGED pmPc
    /\ PmOthers

\* run_module calls pump.
PumpCall(max_bytes, max_lines) ==
    /\ prog = "pump" /\ pmPc = "run"
    /\ pm.calls < MaxPumpCalls
    /\ LET r == Pump_pump(pm, max_bytes, max_lines) IN
       pm' = [pm EXCEPT !.pipe = r.pipe, !.buf = r.buf, !.last = r.msgs,
                        !.returned = @ \o r.msgs, !.max_lines = max_lines,
                        !.calls = @ + 1]
    /\ UNCHANGED pmPc
    /\ PmOthers

PumpNext ==
    \/ \E b \in PumpBytes : PumpChildWrite(b)
    \/ PumpChildClose
    \/ \E max_bytes \in {MaxChunk, MaxBytes}, max_lines \in 1 .. MaxLines :
          PumpCall(max_bytes, max_lines)

\* ========================================================================
\* PCMRing of the spirit box (src/OLED/Modules/spirit_box/run.py)
\* ========================================================================
\* Bytes are numbered in the order of their arrival, so a block is the
\* sequence of the numbers of its bytes.

\* The bytes of the queued blocks, oldest first.
RECURSIVE RingFlat(_)
RingFlat(q) == IF q = << >> THEN << >> ELSE Head(q) \o RingFlat(Tail(q))

\* The last n elements of s.
RingLast(s, n) == SubSeq(s, Len(s) - n + 1, Len(s))

\* PCMRing.__init__.  lock is the holder of self.lock; push_pc and snap_pc
\* are the positions of the capture thread inside push and of the control
\* loop inside snapshot_last_seconds; data, want, out and k are their
\* locals (k: the blocks reversed(self.q) has still to yield); result is
\* what the last snapshot returned, seen the queue and seen_size the size
\* as they were when it returned.  arrived counts the bytes pushed, evicted
\* the blocks dropped.
PCMRing(max_bytes) ==
    [ max_bytes |-> max_bytes,
      q         |-> << >>,
      size      |-> 0,
      lock      |-> "none",
      push_pc   |-> "idle",
      data      |-> << >>,
      snap_pc   |-> "idle",
      want      |-> 0,
      out       |-> << >>,
      k         |-> 0,
      result    |-> << >>,
      seen      |-> << >>,
      seen_size |-> 0,
      arrived   |-> 0,
      evicted   |-> 0,
      npush     |-> 0,
      nsnap     |-> 0 ]

\* snapshot_last_seconds that keeps the first want bytes.
Ring_trim_Head(out, want) ==
    IF Len(out) > want THEN SubSeq(out, 1, want) ELSE out

\* snapshot_last_seconds: out = out[-want:] when out is longer than want.
Ring_trim(out, want) ==
    IF Len(out) > want THEN RingLast(out, want) ELSE out

RgRest == UNCHANGED <<prog, ng, ngPc, tg, tgPc, uap, uapPc, lg, lgPc, stn, stnPc, rnd, rndPc, cfg, cfgPc, sb, sbPc, pg, pgPc, wv, wvPc, pm, pmPc>>
RgOthers == RgRest /\ UNCHANGED line

\* push: the capture thread enters 'with self.lock' with a block of n bytes.
RingPushAcquire(n) ==
    /\ prog = "ring" /\ rg.push_pc = "idle" /\ rg.lock = "none"
    /\ rg.npush < MaxPushes
    /\ rg' = [rg EXCEPT !.lock = "push", !.push_pc = "append",
                        !.data = [i \in 1 .. n |-> rg.arrived + i],
                        !.arrived = @ + n, !.npush = @ + 1]
    /\ UNCHANGED rgPc /\ RgOthers

\* push: self.q.append(data)
RingPushAppend ==
    /\ prog = "ring" /\ rg.push_pc = "append"
    /\ rg' = [rg EXCEPT !.q = Append(@, rg.data), !.push_pc = "size"]
    /\ UNCHANGED rgPc /\ RgOthers

\* push: self.size += len(data)
RingPushSize ==
    /\ prog = "ring" /\ rg.push_pc = "size"
    /\ rg' = [rg EXCEPT !.size = @ + Len(rg.data), !.push_pc = "evict"]
    /\ UNCHANGED rgPc /\ RgOthers

\* push: one iteration of the while loop.
RingPushEvict ==
    /\ prog = "ring" /\ rg.push_pc = "evict"
    /\ rg.size > rg.max_bytes /\ rg.q # << >>
    /\ rg' = [rg EXCEPT !.q = Tail(@), !.size = @ - Len(Head(rg.q)),
                        !.evicted = @ + 1]
    /\ UNCHANGED rgPc /\ RgOthers

\* push: the while loop ends and the lock is released.
RingPushRelease ==
    /\ prog = "ring" /\ rg.push_pc = "evict"
    /\ ~(rg.size > rg.max_bytes /\ rg.q # << >>)
    /\ rg' = [rg EXCEPT !.lock = "none", !.push_pc = "idle", !.data = << >>]
    /\ UNCHANGED rgPc /\ RgOthers

\* snapshot_last_seconds: want is computed and the lock taken; with
\* want <= 0 the call returns b"" at once.
RingSnapAcquire(want) ==
    /\ prog = "ring" /\ rg.snap_pc = "idle" /\ rg.lock = "none"
    /\ rg.nsnap < MaxSnaps
    /\ rg' = IF want <= 0
             THEN [rg EXCEPT !.want = want, !.result = << >>, !.out = << >>,
                             !.seen = rg.q, !.seen_size = rg.size,
                             !.nsnap = @ + 1]
             ELSE [rg EXCEPT !.lock = "snap", !.snap_pc = "iter", !.want = want,
                             !.out = << >>, !.k = Len(rg.q)]
    /\ UNCHANGED rgPc /\ RgOthers

\* snapshot_last_seconds: one block of reversed(self.q) is prepended.
RingSnapIter ==
    /\ prog = "ring" /\ rg.snap_pc = "iter" /\ rg.k > 0
    /\ rg' = LET out == rg.q[rg.k] \o rg.out IN
             [rg EXCEPT !.out = out, !.k = @ - 1,
                        !.snap_pc = IF Len(out) >= rg.want THEN "trim" ELSE "iter"]
    /\ UNCHANGED rgPc /\ RgOthers

\* snapshot_last_seconds: the for loop is exhausted.
RingSnapExhausted ==
    /\ prog = "ring" /\ rg.snap_pc = "iter" /\ rg.k = 0
    /\ rg' = [rg EXCEPT !.snap_pc = "trim"]
    /\ UNCHANGED rgPc /\ RgOthers

\* snapshot_last_seconds: the trim and the return, which releases the lock.
RingSnapReturn ==
    /\ prog = "ring" /\ rg.snap_pc = "trim"
    /\ rg' = [rg EXCEPT !.result = Ring_trim(rg.out, rg.want), !.out = << >>,
                        !.seen = rg.q, !.seen_size = rg.size,
                        !.lock = "none", !.snap_pc = "idle", !.nsnap = @ + 1]
    /\ UNCHANGED rgPc /\ RgOthers

RingNext ==
    \/ \E n \in 1 .. MaxBlock : RingPushAcquire(n)
    \/ RingPushAppend
    \/ RingPushSize
    \/ RingPushEvict
    \/ RingPushRelease
    \/ \E want \in 0 .. MaxWant : RingSnapAcquire(want)
    \/ RingSnapIter
    \/ RingSnapExhausted
    \/ RingSnapReturn

\* ========================================================================
\* configuration files
\* ========================================================================
\* DEFAULTS of the legacy tone generator (keys)
TONE_DEFAULTS ==
    {"volume", "steady_hz", "pulse_hz", "pulse_on_ms", "pulse_off_ms",
     "sweep_start_hz", "sweep_end_hz", "sweep_step_hz", "sweep_step_ms", "favorites"}

\* DEFAULT_CFG of the SpiritBox module (keys)
DEFAULT_CFG == {"scan_style", "output_mode", "pause_on_bt_loss", "dwell_ms"}

\* DEFAULT_SETTINGS of Spirit_Box (keys)
DEFAULT_SETTINGS == {"step_mhz", "sweep_ms", "scan_style", "volume"}

CfgModules == {"tone_legacy", "spiritbox_module", "spirit_box"}

\* The keys a module recognizes.
Recognized(m) ==
    IF m = "tone_legacy" THEN TONE_DEFAULTS
    ELSE IF m = "spiritbox_module" THEN DEFAULT_CFG
    ELSE DEFAULT_SETTINGS

\* A key no module recognizes.
UnknownKey == "unknown_key"

\* The configuration file: absent, not JSON, a JSON list, or a JSON object
\* with the keys given.
CfgFiles(m) ==
    [kind : {"absent", "invalid", "list"}, keys : {{}}]
    \cup [kind : {"dict"}, keys : SUBSET (Recognized(m) \cup {UnknownKey})]

\* A dictionary: each key with the origin of its value.
DictOf(keys, origin) == [k \in keys |-> origin]

\* {**a, **b} and a.update(b)
Update(a, b) ==
    [k \in DOMAIN a \cup DOMAIN b |-> IF k \in DOMAIN b THEN b[k] ELSE a[k]]

\* json.loads(read_text()) of a file that parses
CfgData(file) == DictOf(file.keys, "file")

\* load_cfg of the legacy tone generator: [cfg, written]
Tone_load_cfg(file) ==
    LET defaults == DictOf(TONE_DEFAULTS, "default") IN
    IF file.kind = "absent" THEN [cfg |-> defaults, written |-> TRUE]
    ELSE LET data == IF file.kind = "dict" THEN CfgData(file) ELSE <<>>
         IN  [cfg |-> [k \in DOMAIN defaults |->
                          IF k \in DOMAIN data THEN data[k] ELSE defaults[k]],
              written |-> FALSE]

\* load_cfg of the SpiritBox module
Sbm_load_cfg(file) ==
    LET defaults == DictOf(DEFAULT_CFG, "default") IN
    IF file.kind = "dict"
    THEN [cfg |-> Update(defaults, CfgData(file)), written |-> FALSE]
    ELSE [cfg |-> defaults, written |-> FALSE]

\* load_settings of Spirit_Box
Sb_load_settings(file) ==
    LET defaults == DictOf(DEFAULT_SETTINGS, "default") IN
    IF file.kind = "dict"
    THEN [cfg |-> Update(defaults, CfgData(file)), written |-> FALSE]
    ELSE IF file.kind = "list"
    THEN [cfg |-> defaults, written |-> FALSE]
    ELSE [cfg |-> defaults, written |-> TRUE]

\* A module about to load its configuration.
CfgState(m, file) ==
    [module |-> m, file |-> file, cfg |-> <<>>, written |-> FALSE]

CfgRest == UNCHANGED <<prog, ng, ngPc, tg, tgPc, uap, uapPc, lg, lgPc, stn, stnPc, rnd, rndPc, sb, sbPc, pg, pgPc, wv, wvPc, pm, pmPc, rg, rgPc>>
CfgOthers == CfgRest /\ UNCHANGED line

\* The module loads its configuration.
CfgLoad ==
    /\ prog = "config" /\ cfgPc = "start"
    /\ LET r == IF cfg.module = "tone_legacy" THEN Tone_load_cfg(cfg.file)
                ELSE IF cfg.module = "spiritbox_module" THEN Sbm_load_cfg(cfg.file)
                ELSE Sb_load_settings(cfg.file)
       IN  cfg' = [cfg EXCEPT !.cfg = r.cfg, !.written = r.written]
    /\ cfgPc' = "loaded"
    /\ CfgOthers

\* ========================================================================
\* spirit_box (src/OLED/Modules/spirit_box/run.py)
\* ========================================================================
SWEEP_MS_CHOICES == <<150, 200, 250, 300>>
DIR_CHOICES == <<"fwd", "rev">>
MODE_CHOICES == <<"scan", "burst">>
CURSOR_CHOICES == <<"rate", "direction", "mode", "play">>

\* Frequencies in tenths of a MHz.
FM_MIN == 875
FM_MAX == 1080
FM_STEP == 2
SB_INIT_FREQ == 995
\* arecord is respawned this many times by one capture thread.
SB_MAX_RESPAWNS == 3

\* list.index(cur) counted from 0, and 0 where index raises.
SbIndex(cur, choices) ==
    IF \E i \in 1 .. Len(choices) : choices[i] = cur
    THEN (CHOOSE i \in 1 .. Len(choices) :
              /\ choices[i] = cur
              /\ \A j \in 1 .. i - 1 : choices[j] # cur) - 1
    ELSE 0

\* _cycle_choice that steps forward whatever delta says.
Sb_cycle_choice_Forward(cur, choices, delta) ==
    choices[((SbIndex(cur, choices) + 1) % Len(choices)) + 1]

Sb_cycle_choice(cur, choices, delta) ==
    choices[((SbIndex(cur, choices) + delta) % Len(choices)) + 1]

Sb_cycle_int_choice(cur, choices, delta) == Sb_cycle_choice(cur, choices, delta)

Sb_step_freq(freq, direction) ==
    IF direction = "rev"
    THEN (IF freq - FM_STEP < FM_MIN THEN FM_MAX ELSE freq - FM_STEP)
    ELSE (IF freq + FM_STEP > FM_MAX THEN FM_MIN ELSE freq + FM_STEP)

\* UIState and the ALSACapture object after main's initialisation; out, cmd,
\* cause and ncmds record the last step.  level, the meter reading, and the
\* ring of captured PCM are left out.
SbUIState(tea_ok) ==
    [ page |-> "main", ready |-> TRUE, sweep_ms |-> 200, direction |-> "fwd",
      mode |-> "scan", playing |-> FALSE, cursor |-> "rate",
      freq_mhz |-> SB_INIT_FREQ, tea_ok |-> tea_ok, alsa_ok |-> FALSE,
      fatal_active |-> FALSE, exiting |-> FALSE,
      cap_t |-> "none", cap_proc |-> FALSE, cap_restart_tries |-> 0,
      cap_alsa_ok |-> FALSE,
      out |-> <<>>, cmd |-> "none", cause |-> "none", ncmds |-> 0 ]

SbStateEvent(s) ==
    [ type |-> "state", ready |-> s.ready, sweep_ms |-> s.sweep_ms,
      direction |-> s.direction, mode |-> s.mode, playing |-> s.playing,
      cursor |-> s.cursor, freq_mhz |-> s.freq_mhz, tea_ok |-> s.tea_ok,
      alsa_ok |-> s.alsa_ok ]

SbFatal(msg) == [type |-> "fatal", message |-> msg]

Sb_emit(s, ev) == [s EXCEPT !.out = Append(@, ev)]
Sb_emit_state(s) == Sb_emit(s, SbStateEvent(s))

\* _toast_throttle: the toast is written when the last one is old enough.
Sb_toast_throttle(s, msg, old) ==
    IF old THEN Sb_emit(s, [type |-> "toast", message |-> msg]) ELSE s

\* ALSACapture.start; spawn is what Popen does.
Sb_cap_start(s, spawn) ==
    IF s.cap_t = "alive" THEN s
    ELSE IF spawn = "raise" THEN s
    ELSE [s EXCEPT !.cap_proc = TRUE, !.cap_t = "alive", !.cap_restart_tries = 0]

\* ALSACapture.stop
Sb_cap_stop(s) ==
    [s EXCEPT !.cap_proc = FALSE, !.cap_t = "none", !.cap_alsa_ok = FALSE]

\* start_real; tune is the result of set_freq_mhz.
Sb_start_real(s, tune, old, spawn) ==
    Sb_cap_start(IF s.tea_ok /\ ~tune
                 THEN Sb_toast_throttle(s, "TEA tune failed", old) ELSE s, spawn)

Sb_stop_real(s) == Sb_cap_stop(s)

\* What the operating system and the clock give to one command.
SbInputs ==
    [ old : BOOLEAN, old2 : BOOLEAN, spawn : {"ok", "raise"}, tune : BOOLEAN,
      snap : {"saved", "empty", "failed"} ]

\* The play entry of the select branch.
Sb_select_play(s, in) ==
    IF s.playing
    THEN Sb_toast_throttle(
             Sb_stop_real(Sb_emit_state([s EXCEPT !.playing = FALSE])),
             "STOP", in.old)
    ELSE LET s1 == Sb_start_real(Sb_emit_state([s EXCEPT !.playing = TRUE]),
                                 in.tune, in.old, in.spawn)
         IN  IF s1.cap_t # "alive"
             THEN Sb_emit(Sb_emit_state([s1 EXCEPT !.playing = FALSE]),
                          SbFatal("ALSA capture failed to start (arecord)"))
             ELSE Sb_toast_throttle(s1, "PLAY",
                                    IF s.tea_ok /\ ~in.tune THEN in.old2 ELSE in.old)

\* The snapshot shortcut after the select branch.
Sb_snapshot(s, cmd, in) ==
    IF s.cursor = "play" /\ cmd = "select_hold" /\ ~s.playing
    THEN Sb_toast_throttle(s,
             IF in.snap = "saved" THEN "Saved 2s snapshot WAV"
             ELSE IF in.snap = "empty" THEN "No audio in buffer"
             ELSE "Snapshot failed", in.old2)
    ELSE s

\* The body of the command loop for one command other than back.
Sb_handle_cmd(s, cmd, in) ==
    IF cmd = "up"
    THEN Sb_emit_state([s EXCEPT !.cursor =
             CURSOR_CHOICES[((SbIndex(s.cursor, CURSOR_CHOICES) - 1)
                                % Len(CURSOR_CHOICES)) + 1]])
    ELSE IF cmd = "down"
    THEN Sb_emit_state([s EXCEPT !.cursor =
             CURSOR_CHOICES[((SbIndex(s.cursor, CURSOR_CHOICES) + 1)
                                % Len(CURSOR_CHOICES)) + 1]])
    ELSE IF cmd \in {"select", "select_hold"}
    THEN LET delta == IF cmd = "select" THEN 1 ELSE -1
             s1 == IF s.cursor = "rate"
                   THEN Sb_emit_state(Sb_toast_throttle(
                            [s EXCEPT !.sweep_ms =
                                Sb_cycle_int_choice(s.sweep_ms, SWEEP_MS_CHOICES, delta)],
                            "Sweep", in.old))
                   ELSE IF s.cursor = "direction"
                   THEN Sb_emit_state(Sb_toast_throttle(
                            [s EXCEPT !.direction =
                                Sb_cycle_choice(s.direction, DIR_CHOICES, delta)],
                            "Direction", in.old))
                   ELSE IF s.cursor = "mode"
                   THEN Sb_emit_state(Sb_toast_throttle(
                            [s EXCEPT !.mode =
                                Sb_cycle_choice(s.mode, MODE_CHOICES, delta)],
                            "Mode", in.old))
                   ELSE IF s.cursor = "play"
                   THEN Sb_select_play(s, in)
                   ELSE s
         IN  Sb_snapshot(s1, cmd, in)
    ELSE s

\* The inputs a command reads; the others are held at one value.
SbInputUsed(s, cmd, in) ==
    LET sel == cmd \in {"select", "select_hold"}
        starts == sel /\ s.cursor = "play" /\ ~s.playing
        second == \/ starts /\ s.tea_ok /\ ~in.tune /\ in.spawn = "ok"
                  \/ sel /\ cmd = "select_hold" /\ s.cursor = "play"
                        /\ (s.playing \/ in.spawn = "raise")
    IN  /\ (sel /\ ~(starts /\ in.spawn = "raise" /\ (~s.tea_ok \/ in.tune)
                        /\ cmd = "select")) \/ in.old
        /\ second \/ in.old2
        /\ starts \/ (in.spawn = "ok" /\ in.tune)
        /\ (starts /\ s.tea_ok) \/ in.tune
        /\ (cmd = "select_hold" /\ s.cursor = "play"
                /\ (s.playing \/ in.spawn = "raise")) \/ in.snap = "saved"

\* The part of an iteration after the commands: the sweep step when due,
\* the check of the capture thread, the heartbeat when hb.
Sb_tick(s, due, hb) ==
    LET s0 == [s EXCEPT !.alsa_ok = s.cap_alsa_ok]
        s1 == IF s0.playing /\ due
              THEN [s0 EXCEPT !.freq_mhz = Sb_step_freq(@, s0.direction)] ELSE s0
        s2 == IF s1.playing /\ s1.cap_t = "dead" /\ ~s1.fatal_active
              THEN Sb_emit(Sb_emit_state([s1 EXCEPT !.fatal_active = TRUE,
                                                    !.ready = FALSE,
                                                    !.playing = FALSE]),
                           SbFatal("ALSA capture crashed repeatedly"))
              ELSE s1
    IN  IF hb THEN Sb_emit_state(s2) ELSE s2

\* The finally block of main.
Sb_finally(s) == Sb_emit(Sb_stop_real(s), [type |-> "exit"])

SbRest == UNCHANGED <<prog, ng, ngPc, tg, tgPc, uap, uapPc, lg, lgPc, stn, stnPc, rnd, rndPc, cfg, cfgPc, pg, pgPc, wv, wvPc, pm, pmPc, rg, rgPc>>
SbOthers == SbRest /\ UNCHANGED line

\* A step starts with nothing written.
SbBegin(cause) == [sb EXCEPT !.out = <<>>, !.cmd = "none", !.cause = cause]

\* One command of the batch read by this iteration; back leaves the batch.
SbCommand(cmd, in) ==
    /\ prog = "spirit" /\ sbPc = "cmds"
    /\ sb.ncmds < MaxSbCmds
    /\ SbInputUsed(sb, cmd, in)
    /\ LET s == [SbBegin("command") EXCEPT !.cmd = cmd, !.ncmds = @ + 1]
       IN  IF cmd = "back"
           THEN sb' = [s EXCEPT !.exiting = TRUE] /\ sbPc' = "tick"
           ELSE sb' = Sb_handle_cmd(s, cmd, in) /\ sbPc' = "cmds"
    /\ SbOthers

\* The rest of the iteration, then the loop test and the finally block.
SbTick(due, hb) ==
    /\ prog = "spirit" /\ sbPc \in {"cmds", "tick"}
    /\ due =>
          LET f == Sb_step_freq(sb.freq_mhz, sb.direction)
          IN  /\ sb.playing
              /\ f - SB_INIT_FREQ <= FM_STEP * MaxSweepSteps
              /\ SB_INIT_FREQ - f <= FM_STEP * MaxSweepSteps
    /\ LET s == Sb_tick(SbBegin("tick"), due, hb)
       IN  IF s.exiting
           THEN sb' = Sb_finally(s) /\ sbPc' = "exited"
           ELSE sb' = s /\ sbPc' = "cmds"
    /\ SbOthers

\* The loop test finds the flag raised by a signal.
SbLeave ==
    /\ prog = "spirit" /\ sbPc = "cmds" /\ sb.exiting
    /\ sb' = Sb_finally(SbBegin("leave"))
    /\ sbPc' = "exited"
    /\ SbOthers

\* _sig_handler
SbSignal ==
    /\ prog = "spirit" /\ sbPc \in {"cmds", "tick"} /\ ~sb.exiting
    /\ sb' = [SbBegin("signal") EXCEPT !.exiting = TRUE]
    /\ UNCHANGED sbPc
    /\ SbOthers

\* _loop of the capture thread reads a chunk from arecord.
SbCapRead ==
    /\ prog = "spirit" /\ sbPc \in {"cmds", "tick"}
    /\ sb.cap_t = "alive" /\ sb.cap_proc /\ ~sb.cap_alsa_ok
    /\ sb' = [SbBegin("capture") EXCEPT !.cap_alsa_ok = TRUE]
    /\ UNCHANGED sbPc
    /\ SbOthers

\* _loop of the capture thread finds arecord dead: respawn while the budget
\* lasts, end of the thread otherwise or when the respawn raises.
SbCapFail(spawn) ==
    /\ prog = "spirit" /\ sbPc \in {"cmds", "tick"}
    /\ sb.cap_t = "alive" /\ sb.cap_proc
    /\ LET s == [SbBegin("capture") EXCEPT !.cap_alsa_ok = FALSE,
                                           !.cap_proc = FALSE,
                                           !.cap_restart_tries = @ + 1]
       IN  sb' = IF s.cap_restart_tries <= SB_MAX_RESPAWNS /\ spawn = "ok"
                 THEN [s EXCEPT !.cap_proc = TRUE]
                 ELSE [s EXCEPT !.cap_t = "dead"]
    /\ (sb.cap_restart_tries + 1 > SB_MAX_RESPAWNS) => spawn = "ok"
    /\ UNCHANGED sbPc
    /\ SbOthers

SbNext ==
    \/ \E cmd \in {"up", "down", "select", "select_hold", "back"} :
          \E in \in SbInputs : SbCommand(cmd, in)
    \/ \E due \in BOOLEAN, hb \in BOOLEAN : SbTick(due, hb)
    \/ SbLeave
    \/ SbSignal
    \/ SbCapRead
    \/ \E spawn \in {"ok", "raise"} : SbCapFail(spawn)

\* ========================================================================
\* Specifications
\* ========================================================================
vars == <<prog, ng, ngPc, tg, tgPc, uap, uapPc, lg, lgPc, stn, stnPc, rnd, rndPc, cfg, cfgPc, sb, sbPc, pg, pgPc, wv, wvPc, pm, pmPc, rg, rgPc, line>>

\* The state of a module that is not the running one.
NgOff == ng = NoiseModule(FALSE) /\ ngPc = "off"
TgOff == tg = UIState(FALSE) /\ tgPc = "off"
UapOff == uap = UapState(FALSE, FALSE) /\ uapPc = "off"
LgOff == lg = NoiseState /\ lgPc = "off"
StnOff == stn = ToneState /\ stnPc = "off"
RndOff == rnd = Render(NoJob) /\ rndPc = "off"
CfgOff ==
    cfg = CfgState("none", [kind |-> "absent", keys |-> {}]) /\ cfgPc = "off"
SbOff == sb = SbUIState(FALSE) /\ sbPc = "off"
PmOff == pm = PumpState /\ pmPc = "off"
RgOff == rg = PCMRing(0) /\ rgPc = "off"
WvOff == wv = [WavWriter("standard") EXCEPT !.kind = "none"] /\ wvPc = "off"
PgOff ==
    /\ pg = PulseStream([pulse_on |-> FALSE, pulse_ms |-> LG_INIT_PULSE_MS,
                         duty |-> LG_INIT_DUTY, volume |-> LG_INIT_VOLUME])
    /\ pgPc = "off"

\* main of noise_generator up to hello().
NgInit ==
    /\ prog = "noise"
    /\ \E player \in BOOLEAN : ng = NoiseModule(player)
    /\ ngPc = "select"
    /\ TgOff /\ UapOff /\ LgOff /\ StnOff /\ RndOff /\ CfgOff /\ SbOff /\ PgOff /\ WvOff /\ PmOff /\ RgOff
    /\ line = NoLine

\* main of tone_generator up to the player preflight.
TgInit ==
    /\ prog = "tone"
    /\ \E player \in BOOLEAN : tg = Tg_preflight(UIState(player))
    /\ tgPc = "top"
    /\ NgOff /\ UapOff /\ LgOff /\ StnOff /\ RndOff /\ CfgOff /\ SbOff /\ PgOff /\ WvOff /\ PmOff /\ RgOff
    /\ line = NoLine

\* main of uap_caller up to its loop.
UapInit ==
    /\ prog = "uap"
    /\ \E player \in BOOLEAN, ready \in BOOLEAN :
          /\ uap = Uap_main_start(UapState(player, ready))
          /\ uapPc = IF player THEN "loop" ELSE "exited"
    /\ NgOff /\ TgOff /\ LgOff /\ StnOff /\ RndOff /\ CfgOff /\ SbOff /\ PgOff /\ WvOff /\ PmOff /\ RgOff
    /\ line = NoLine

Init == NgInit \/ TgInit \/ UapInit
Next == NgNext \/ TgNext \/ UapNext
Spec == Init /\ [][Next]_vars

SpecNoise == NgInit /\ [][NgNext]_vars
SpecTone == TgInit /\ [][TgNext]_vars
SpecUap == UapInit /\ [][UapNext]_vars

\* main of the legacy noise generator up to the loop.
LgInit ==
    /\ prog = "legacy"
    /\ \E backend \in BOOLEAN : lg = [NoiseState EXCEPT !.backend = backend]
    /\ lgPc = "loop"
    /\ NgOff /\ TgOff /\ UapOff /\ StnOff /\ RndOff /\ CfgOff /\ SbOff /\ PgOff /\ WvOff /\ PmOff /\ RgOff
    /\ line = NoLine

\* main of the streaming tone generator up to the loop.
StnInit ==
    /\ prog = "stream"
    /\ \E aplay \in BOOLEAN : stn = [ToneState EXCEPT !.aplay = aplay]
    /\ stnPc = "loop"
    /\ NgOff /\ TgOff /\ UapOff /\ LgOff /\ RndOff /\ CfgOff /\ SbOff /\ PgOff /\ WvOff /\ PmOff /\ RgOff
    /\ line = NoLine

\* The modules that stream PCM blocks into the stdin of their sink.
StreamInit == LgInit \/ StnInit
StreamNext == LgNext \/ StnNext
SpecStream == StreamInit /\ [][StreamNext]_vars

\* A sample generator is called.
RenderInit ==
    /\ prog = "render"
    /\ \E job \in RenderJobs : rnd = Render(job)
    /\ rndPc = "frames"
    /\ NgOff /\ TgOff /\ UapOff /\ LgOff /\ StnOff /\ CfgOff /\ SbOff /\ PgOff /\ WvOff /\ PmOff /\ RgOff
    /\ line = NoLine

RenderNext ==
    \/ \E x \in RawSamples : RenderFrame(x)
    \/ \E n \in 1 .. MaxBuildLen : RenderBuild(n)

SpecRender == RenderInit /\ [][RenderNext]_vars

\* A module starts with some configuration file on disk.
CfgInit ==
    /\ prog = "config"
    /\ \E m \in CfgModules : \E file \in CfgFiles(m) : cfg = CfgState(m, file)
    /\ cfgPc = "start"
    /\ NgOff /\ TgOff /\ UapOff /\ LgOff /\ StnOff /\ RndOff /\ SbOff /\ PgOff /\ WvOff /\ PmOff /\ RgOff
    /\ line = NoLine

SpecConfig == CfgInit /\ [][CfgLoad]_vars

\* main of spirit_box up to its loop; the tuner answers the probe or not.
SbInit ==
    /\ prog = "spirit"
    /\ \E tea_ok \in BOOLEAN : sb = SbUIState(tea_ok)
    /\ sbPc = "cmds"
    /\ NgOff /\ TgOff /\ UapOff /\ LgOff /\ StnOff /\ RndOff /\ CfgOff /\ PgOff /\ WvOff /\ PmOff /\ RgOff
    /\ line = NoLine

SpecSpirit == SbInit /\ [][SbNext]_vars

\* The legacy noise generator plays with the pulse gate on.
PulseInit ==
    /\ prog = "pulse"
    /\ \E st \in PulseSettings : pg = PulseStream(st)
    /\ pgPc = "stream"
    /\ NgOff /\ TgOff /\ UapOff /\ LgOff /\ StnOff /\ RndOff /\ CfgOff /\ SbOff /\ WvOff /\ PmOff /\ RgOff
    /\ line = NoLine

SpecPulse == PulseInit /\ [][PulseNext]_vars

\* A generator of the tone generator calls _write_wav_from_samples.
WavInit ==
    /\ prog = "wav"
    /\ \E kind \in WavKinds : wv = WavWriter(kind)
    /\ wvPc = "loop"
    /\ NgOff /\ TgOff /\ UapOff /\ LgOff /\ StnOff /\ RndOff /\ CfgOff /\ SbOff /\ PgOff /\ PmOff /\ RgOff
    /\ line = NoLine

SpecWav == WavInit /\ [][WavNext]_vars

\* run_module has started a child and made its pump.
PumpInit ==
    /\ prog = "pump"
    /\ pm = PumpState
    /\ pmPc = "run"
    /\ NgOff /\ TgOff /\ UapOff /\ LgOff /\ StnOff /\ RndOff /\ CfgOff /\ SbOff /\ PgOff /\ WvOff /\ RgOff
    /\ line = NoLine

SpecPump == PumpInit /\ [][PumpNext]_vars

\* ALSACapture.__init__ has made the ring; the capture thread and the control
\* loop both hold it.
RingInit ==
    /\ prog = "ring"
    /\ \E m \in {RingMaxBytes - 2, RingMaxBytes} : rg = PCMRing(m)
    /\ rgPc = "run"
    /\ NgOff /\ TgOff /\ UapOff /\ LgOff /\ StnOff /\ RndOff /\ CfgOff /\ SbOff /\ PgOff /\ WvOff /\ PmOff
    /\ line = NoLine

SpecRing == RingInit /\ [][RingNext]_vars

\* ---- the command handlers applied to drawn parameter settings ------------
\* Settings the modules reach after enough commands: volumes in steps of 5,
\* frequencies and timings next to their limits.
NgVolumes == {v \in 0 .. 100 : v % NG_VOLUME_STEP = 0}
TgVolumes == {0, TG_VOLUME_STEP, 100 - TG_VOLUME_STEP, 100}
TgFreqs == {TG_FREQ_MIN, TG_FREQ_MIN + 5, TG_FREQ_MAX - 40, TG_FREQ_MAX}
LgVolumes == {0, LG_VOLUME_STEP, 100 - LG_VOLUME_STEP, 100}
LgPulses == {LG_INIT_PULSE_MS, LG_PULSE_MAX - LG_PULSE_STEP, LG_PULSE_MAX}
LgDuties == {LG_INIT_DUTY, LG_DUTY_MAX - LG_DUTY_STEP, LG_DUTY_MAX}

NgParamsInit ==
    /\ prog = "noise"
    /\ \E player \in BOOLEAN, v \in NgVolumes :
          ng = [NoiseModule(player) EXCEPT !.volume = v]
    /\ ngPc = "apply"
    /\ TgOff /\ UapOff /\ LgOff /\ StnOff /\ RndOff /\ CfgOff /\ SbOff /\ PgOff /\ WvOff /\ PmOff /\ RgOff
    /\ line = NoLine

\* The tone generator with the pattern of the drawn setting built.
TgParamsInit ==
    /\ prog = "tone"
    /\ \E v \in TgVolumes, f \in TgFreqs, p \in {"main", "freq_edit"} :
          LET s == [TgBegin(Tg_preflight(UIState(TRUE)), "none") EXCEPT
                       !.volume = v, !.freq_hz = f, !.page = p,
                       !.done = TRUE, !.ok = TRUE]
          IN  tg = [s EXCEPT !.wav = TgWanted(s)]
    /\ tgPc = "apply"
    /\ NgOff /\ UapOff /\ LgOff /\ StnOff /\ RndOff /\ CfgOff /\ SbOff /\ PgOff /\ WvOff /\ PmOff /\ RgOff
    /\ line = NoLine

LgParamsInit ==
    /\ prog = "legacy"
    /\ \E v \in LgVolumes, p \in LgPulses, d \in LgDuties,
          sc \in {"player", "settings"}, row \in 0 .. LG_SETTINGS_ROWS - 1 :
          lg = [NoiseState EXCEPT !.volume = v, !.pulse_ms = p, !.duty = d,
                                  !.screen = sc,
                                  !.set_sel = IF sc = "settings" THEN row ELSE 0]
    /\ lgPc = "apply"
    /\ NgOff /\ TgOff /\ UapOff /\ StnOff /\ RndOff /\ CfgOff /\ SbOff /\ PgOff /\ WvOff /\ PmOff /\ RgOff
    /\ line = NoLine

\* uap_caller at the top of its loop.
UapParamsInit ==
    /\ prog = "uap"
    /\ \E ready \in BOOLEAN : uap = Uap_main_start(UapState(TRUE, ready))
    /\ uapPc = "apply"
    /\ NgOff /\ TgOff /\ LgOff /\ StnOff /\ RndOff /\ CfgOff /\ SbOff /\ PgOff /\ WvOff /\ PmOff /\ RgOff
    /\ line = NoLine

\* _read_stdin hands one line to handle.
NgApply(l, outcome) ==
    /\ prog = "noise" /\ ngPc = "apply"
    /\ ~ng.stop
    /\ NgMayStart(ng, Ng_read_line(l)) \/ outcome = "ok"
    /\ ng' = Ng_handle(NgBegin(ng, Ng_read_line(l)), Ng_read_line(l), outcome)
    /\ line' = l
    /\ UNCHANGED ngPc
    /\ NgRest

\* poll_lines hands one line to the page handlers.
TgApply(l) ==
    /\ prog = "tone" /\ tgPc = "apply"
    /\ tg.ncmds < MaxApply
    /\ tg' = [Tg_dispatch(TgBegin(tg, Tg_poll_line(l)), Tg_poll_line(l))
                  EXCEPT !.ncmds = @ + 1]
    /\ line' = l
    /\ UNCHANGED tgPc
    /\ TgRest

\* handle_cmd of uap_caller is called with one line.
UapApply(l) ==
    /\ prog = "uap" /\ uapPc = "apply"
    /\ uap.cmd # "back"
    /\ Uap_cmd_line(l) = "select_hold" => uap.nbuilds < MaxBuilds
    /\ uap' = Uap_handle_cmd(UapBegin(uap, Uap_cmd_line(l)), Uap_cmd_line(l))
    /\ line' = l
    /\ UNCHANGED uapPc
    /\ UapRest

\* read_event hands one line to the screen handlers.
LgApply(l) ==
    /\ prog = "legacy" /\ lgPc = "apply"
    /\ lg.napplied < MaxApply /\ ~lg.break
    /\ lg' = [Lg_handle_event(lg, Lg_read_event(l)) EXCEPT
                  !.napplied = @ + 1, !.cmd = Lg_read_event(l)]
    /\ line' = l
    /\ UNCHANGED lgPc
    /\ LgRest

ParamsInit == NgParamsInit \/ TgParamsInit \/ UapParamsInit \/ LgParamsInit

ParamsNext ==
    \/ \E l \in Lines, o \in StartOutcomes : NgApply(l, o)
    \/ \E l \in Lines : TgApply(l)
    \/ \E l \in Lines : UapApply(l)
    \/ \E l \in Lines : LgApply(l)

SpecParams == ParamsInit /\ [][ParamsNext]_vars

\* ========================================================================
\* Properties
\* ========================================================================
NgEvents(s, type) == {i \in DOMAIN s.out : s.out[i].type = type}

\* The step taken is the one of run that finds the sink dead while playing.
NgFoundDeadStep ==
    /\ ngPc = "check" /\ ngPc' # "check"
    /\ ng.playing /\ ng.proc = "dead"

\* The step taken handles a command line.
NgCommandStep == ngPc = "read" /\ ng'.cmd # "none"

\* C1: when run finds the sink dead while playing, it either recovers within
\* 3 start attempts or makes exactly 3 attempts and then emits one fatal
\* event with playing false; from then on (fatal, not playing) no step makes
\* a start attempt or spawns a sink, whatever command is handled.
C1_RetryBudgetThenFatal ==
    [][ /\ NgFoundDeadStep =>
            \/ /\ ng'.playing
               /\ ng'.attempts \in 1..NG_RETRIES
               /\ NgEvents(ng', "fatal") = {}
            \/ /\ ~ng'.playing
               /\ ng'.attempts = NG_RETRIES
               /\ Cardinality(NgEvents(ng', "fatal")) = 1
               /\ \A i \in NgEvents(ng', "fatal") : ~ng'.out[i].playing
               /\ ng'.fatal = "playback"
        /\ (ng.fatal # "none" /\ ~ng.playing) =>
               /\ ng'.attempts = 0 /\ ng'.spawns = 0
               /\ ng'.fatal # "none" /\ ~ng'.playing
      ]_vars

C1_Witness ==
    /\ prog = "noise"
    /\ ng.fatal = "playback" /\ ng.attempts = NG_RETRIES /\ ng.spawns = NG_RETRIES
    /\ ~ng.playing

\* C2: once _fatal is set, a command other than back changes none of the
\* fields, emits no event and starts no sink.
C2_FatalIgnoresCommands ==
    [][ (NgCommandStep /\ ng.fatal # "none" /\ ng'.cmd # "back") =>
            /\ ng'.mode_idx = ng.mode_idx
            /\ ng'.volume = ng.volume
            /\ ng'.pulse_idx = ng.pulse_idx
            /\ ng'.focus = ng.focus
            /\ ng'.playing = ng.playing
            /\ ng'.fatal = ng.fatal
            /\ ng'.proc = ng.proc
            /\ ng'.out = << >>
            /\ ng'.spawns = 0 /\ ng'.attempts = 0
            /\ ~ng'.stop = ~ng.stop
      ]_vars

C2_Witness ==
    /\ prog = "noise"
    /\ ng.fatal # "none" /\ ng.cmd = "select" /\ ng.out = << >>
    /\ ~ng.stop

\* C3: two consecutive state events of the noise generator are never more
\* than HEARTBEAT_S apart.
C3_HeartbeatBound == prog = "noise" => ng.gap <= NG_HEARTBEAT_MS

\* ---- tone generator and uap_caller --------------------------------------
TgEvents(s, type) == {i \in DOMAIN s.out : s.out[i].type = type}

\* The step taken dispatches a command line.
TgCommandStep == tgPc = "cmds" /\ tg'.cmd # "none"

\* The step taken is the rest of a loop iteration (handle_build_and_audio on).
TgTickStep == tgPc = "cmds" /\ tgPc' \in {"top", "exited"}

\* The step taken is the play toggle of handle_main.
TgPlayRequest ==
    /\ TgCommandStep
    /\ tg.page = "main" /\ tg.cursor_main = "play" /\ tg'.cmd = "select"

\* C4: never two build worker threads alive in the tone generator, never
\* two builder subprocesses alive in uap_caller.
C4_OneBuildInFlight ==
    /\ prog = "tone" => tg.threads <= 1
    /\ prog = "uap" => uap.builders <= 1

\* BuildJob.start was called while the previous worker thread was alive.
C4_Witness == prog = "tone" /\ tg.refused /\ tg.threads = 1

\* C5: the pattern the sink loop plays, once no restart is pending, was
\* generated from the latest parameters.
C5_LastWriteWins ==
    (prog = "tone" /\ tg.audio_proc = "alive" /\ ~tg.need_restart)
        => tg.played = TgWanted(tg)

\* C6: when the control loop finds the finished build failed, it emits
\* fatal, clears playing and starts no sink loop.
C6_BuildFailureFatal ==
    [][ (TgTickStep /\ tg.need_restart /\ tg.building /\ tg.done /\ ~tg.ok) =>
            /\ TgEvents(tg', "fatal") # {}
            /\ ~tg'.playing
            /\ tg'.spawns = 0
            /\ tg'.audio_proc = "none"
      ]_vars

C6_Witness ==
    /\ prog = "tone" /\ tg.player
    /\ TgEvents(tg, "fatal") # {} /\ tg.done /\ ~tg.ok /\ ~tg.building
    /\ ~tg.need_restart /\ ~tg.playing /\ tg.audio_proc = "none"

\* C7: the sink loop is restarted after an unexpected exit at most a fixed
\* number of times (the budget of the noise generator's recovery loop).
C7_RestartBudget == prog = "tone" => tg.loop_restarts <= NG_RETRIES

\* C8: after a fatal event, a command other than back on the main page
\* changes nothing and cannot set playing.
C8_FatalSticky ==
    [][ (TgCommandStep /\ tg.fatal_emitted /\ ~(tg.page = "main" /\ tg'.cmd = "back")) =>
            /\ tg'.page = tg.page
            /\ tg'.cursor_main = tg.cursor_main
            /\ tg'.cursor_freq_menu = tg.cursor_freq_menu
            /\ tg'.idx_special_freq = tg.idx_special_freq
            /\ tg'.idx_special_tone = tg.idx_special_tone
            /\ tg'.freq_hz = tg.freq_hz
            /\ tg'.volume = tg.volume
            /\ tg'.selection = tg.selection
            /\ tg'.special_tone_id = tg.special_tone_id
            /\ tg'.playing = tg.playing
            /\ tg'.need_restart = tg.need_restart
      ]_vars

\* C9: with no sink executable, a play request spawns nothing, leaves playing
\* false and the module is or becomes fatal.
C9_NoBackendPlayFails ==
    [][ /\ (NgCommandStep /\ ~ng.player /\ ng.fatal = "none" /\ ng'.cmd = "select") =>
               /\ ng'.spawns = 0 /\ ng'.proc = "none"
               /\ ~ng'.playing
               /\ ng'.fatal # "none"
        /\ (TgPlayRequest /\ ~tg.player) =>
               /\ tg'.spawns = 0 /\ tg'.audio_proc = "none"
               /\ ~tg'.playing
               /\ tg'.fatal_emitted
      ]_vars

\* C10: a parameter change made while playing is false starts no sink; the
\* tone generator spawns the loop only in an iteration that finds playing
\* set, and only the play toggle sets it.
C10_StoppedChangesDeferred ==
    [][ /\ (NgCommandStep /\ ~ng.playing /\ ng'.cmd \in {"up", "down", "select_hold"}) =>
               /\ ng'.spawns = 0 /\ ng'.attempts = 0
               /\ ng'.proc = ng.proc
               /\ ~ng'.playing
        /\ TgCommandStep => tg'.spawns = 0 /\ tg'.audio_proc = tg.audio_proc
        /\ (TgCommandStep /\ ~tg.playing /\ tg'.playing) => TgPlayRequest
        /\ (prog = "tone" /\ tg'.spawns > 0) => (TgTickStep /\ tg.playing)
      ]_vars

\* A pattern was built for a change made while stopped; no sink was started.
C10_Witness ==
    /\ prog = "tone" /\ tg.player /\ ~tg.fatal_emitted
    /\ ~tg.playing /\ ~tg.need_restart /\ ~tg.building
    /\ tg.wav # NoPattern /\ tg.wav.volume # TG_INIT_VOLUME
    /\ tg.audio_proc = "none" /\ tg.played = NoPattern

\* ---- C11 .. C20 ----------------------------------------------------------

\* The worker thread is inside job_fn.
TgWorkerRunning(s) == s.wphase \in {"start", "dispatched", "run"}

\* The last state event of a step shows the fields as the step left them.
TgLastStateCurrent(s) ==
    /\ TgEvents(s, "state") # {}
    /\ \A i \in TgEvents(s, "state") :
           (\A j \in TgEvents(s, "state") : j <= i) => s.out[i] = TgStateEvent(s)

\* C11: while the build worker runs, the loop iteration completes without
\* it: up, down and select are handled and answered with a state event, and
\* an iteration in which HEARTBEAT_S has elapsed emits a state event that
\* shows building.
C11_LoopNeverWaits ==
    [][ /\ (TgCommandStep /\ TgWorkerRunning(tg) /\ tg'.cmd \in {"up", "down", "select"}) =>
               /\ TgLastStateCurrent(tg')
               /\ TgWorkerRunning(tg')
        /\ (TgTickStep /\ TgWorkerRunning(tg) /\ tg'.hb) =>
               /\ TgLastStateCurrent(tg')
               /\ TgWorkerRunning(tg')
      ]_vars

\* A heartbeat was emitted in an iteration that found the build unfinished.
C11_Witness ==
    /\ prog = "tone" /\ tg.hb /\ tg.wphase = "run"
    /\ tg.building /\ ~tg.done /\ tg.need_restart
    /\ TgEvents(tg, "state") # {} /\ tg.out[Len(tg.out)].building


\* C12: when back on the top-level page ends the module, the sink handle is
\* already cleared when the exit event is written, and no sink is left.
C12_StopBeforeExit ==
    [][ /\ (NgCommandStep /\ ng'.cmd = "back") =>
               /\ NgEvents(ng', "exit") # {}
               /\ \A i \in NgEvents(ng', "exit") : ng'.out[i].proc = "none"
               /\ ng'.proc = "none" /\ ~ng'.playing
        /\ (TgTickStep /\ tg.exiting) =>
               /\ TgEvents(tg', "exit") # {}
               /\ \A i \in TgEvents(tg', "exit") : tg'.out[i].audio_proc = "none"
               /\ tg'.audio_proc = "none" /\ tgPc' = "exited"
        /\ (TgCommandStep /\ tg.page = "main" /\ tg'.cmd = "back") => tg'.exiting
      ]_vars

\* back arrived while the sink was running.
C12_Witness ==
    /\ prog = "noise" /\ ng.cmd = "back" /\ ng.stop
    /\ ng.kills = 1 /\ ng.spawns = 0 /\ ng.proc = "none"
    /\ NgEvents(ng, "exit") # {}


\* C13: when the noise generator process has terminated (after back, end of
\* input or a signal), it has written exactly one exit event, and that event
\* is the last one it wrote.
C13_OneExitLast ==
    (prog = "noise" /\ ngPc = "exited") =>
        /\ ng.exits = 1
        /\ ng.out # << >>
        /\ ng.out[Len(ng.out)].type = "exit"

\* C14: a fatal event is written only when an error was recorded in _fatal,
\* and a process that back ended with no error recorded has written no
\* fatal event and has exit status 0.
C14_FatalOnlyOnError ==
    prog = "noise" =>
        /\ NgEvents(ng, "fatal") # {} => ng.fatal # "none"
        /\ (ngPc = "exited" /\ ng.cause = "back" /\ ng.fatal = "none") =>
               /\ NgEvents(ng, "fatal") = {}
               /\ ng.rc = 0


\* C15: after back on the top-level page has ended the module, none of the
\* audio files it wrote is left: the noise generator's loop and tick WAVs,
\* the tone generator's PATTERN_WAV and PATTERN_WAV.tmp.
C15_TempFilesRemoved ==
    /\ (prog = "noise" /\ ngPc = "exited" /\ ng.cause = "back") =>
           ~ng.wav_file /\ ~ng.tick_files
    /\ (prog = "tone" /\ tgPc = "exited" /\ tg.cause = "back") =>
           tg.wav = NoPattern /\ ~tg.tmp_file


\* C16: once back on the main page has arrived while a build was in
\* progress, no later iteration starts a sink loop, and the iteration that
\* ends the batch writes the exit event.
C16_NoSinkAfterBackInBuild ==
    [][ (prog = "tone" /\ tg.back_in_build) =>
            /\ tg'.spawns = 0
            /\ TgTickStep => TgEvents(tg', "exit") # {}
      ]_vars


\* The fields after k further lines tok, handled with every sink start
\* succeeding.
RECURSIVE NgPresses(_, _, _)
NgPresses(s, tok, k) ==
    IF k = 0 THEN s ELSE NgPresses(Ng_handle(s, tok, "ok"), tok, k - 1)

\* A line tok is handled while the focus is on the noise type.
NgPressOnMode(tok) ==
    NgCommandStep /\ ng'.cmd = tok /\ ng.focus = "mode" /\ ng.fatal = "none"

C18_ParamsInRange ==
    /\ prog = "noise" =>
           /\ ng.volume \in 0 .. 100
           /\ ng.mode_idx \in 0 .. Len(MODES) - 1
           /\ ng.mode = MODES[ng.mode_idx + 1]
           /\ ng.pulse_idx \in 0 .. Len(PULSE_OPTIONS_MS) - 1
           /\ ng.pulse_ms = PULSE_OPTIONS_MS[ng.pulse_idx + 1]
    /\ prog = "tone" =>
           /\ tg.volume \in 0 .. 100
           /\ tg.freq_hz \in TG_FREQ_MIN .. TG_FREQ_MAX
    /\ prog = "legacy" =>
           /\ lg.volume \in 0 .. 100
           /\ lg.duty \in LG_DUTY_MIN .. LG_DUTY_MAX
           /\ lg.pulse_ms \in LG_PULSE_MIN .. LG_PULSE_MAX

\* The big step of the manual edit page was cut off at the upper limit.
C18_Witness ==
    /\ prog = "tone" /\ tgPc = "apply"
    /\ tg.page = "freq_edit" /\ tg.cmd = "select_hold"
    /\ tg.freq_hz = TG_FREQ_MAX


\* C19: each JSON module takes a line that differs from a command token
\* only in letter case for that token: the command its handler acts on is
\* the lower-case word of the line.
C19_CaseInsensitive ==
    line # NoLine =>
        /\ prog = "noise" => ng.cmd = line.word
        /\ prog = "tone" => tg.cmd = line.word
        /\ prog = "uap" => uap.cmd = line.word
        /\ Sb_poll_line(line) = line.word


\* The fields of the noise generator that emit_state reports.
NgReported(s) ==
    <<s.mode_idx, s.mode, s.volume, s.pulse_idx, s.pulse_ms, s.focus,
      s.playing, s.fatal>>

\* _read_stdin takes a line that is empty or spells no command.
NgIgnoredLineStep == prog = "noise" /\ ngPc = "read" /\ ng'.cmd \in {"empty", "junk"}

\* C20: in the noise generator an empty line or a token outside the
\* vocabulary leaves mode, volume, pulse, focus, playing and fatal unchanged,
\* writes no event, leaves the sink alone, and the loop goes on reading.
C20_IgnoredLine ==
    [][NgIgnoredLineStep =>
          /\ NgReported(ng') = NgReported(ng)
          /\ ng'.out = <<>>
          /\ ng'.proc = ng.proc
          /\ ng'.stop = ng.stop
          /\ ~ng.stop => ngPc' = "read"]_vars

C20_Witness ==
    /\ prog = "noise" /\ ngPc = "read"
    /\ ng.cmd = "empty"
    /\ ng.playing /\ ng.proc = "alive"
    /\ ng.out = <<>> /\ ~ng.stop


\* ------------------------------------------------------------------------
\* C21 .. C30
\* ------------------------------------------------------------------------
\* C21: in the streaming modules a failed write to the sink is handled
\* like a sink crash: the module stays in the playing state so that the sink
\* is restarted, and after the budget of failures in a row it has stopped
\* restarting.
C21_WriteFailureBudget ==
    [][ /\ (prog = "legacy" /\ lg'.wfail) => lg'.playing
        /\ (prog = "stream" /\ stn'.fails >= MaxSinkFails) => ~stn'.playing ]_vars


\* C22: at volume 0 every sample written is 0, in _write_wav of the noise
\* generator, in render_block of the legacy noise generator (gate open,
\* closed or off) and in the tone patterns.
C22_ZeroVolumeSilence ==
    (prog = "render" /\ rnd.job.volume = 0) =>
        \A i \in 1 .. Len(rnd.pcm) : rnd.pcm[i] = 0

C22_Witness ==
    /\ prog = "render" /\ rnd.job.volume = 0
    /\ rnd.job.module = "legacy" /\ rnd.job.kind = "Brown" /\ rnd.job.gate = "open"
    /\ Len(rnd.pcm) = 2
    /\ rnd.raw[1] > RAW_UNIT /\ rnd.raw[2] < 0
    /\ rnd.pcm = <<0, 0>>


\* C23: two builds of a pattern of the noise generator with the same mode,
\* volume and length give the same samples, whatever was built before.
C23_RenderDeterministic ==
    prog = "render" =>
        \A i, j \in 1 .. Len(rnd.builds) : rnd.builds[i] = rnd.builds[j]

C23_Witness ==
    /\ prog = "render" /\ rnd.job.kind = "white" /\ rnd.n = 3
    /\ Len(rnd.builds) = 2
    /\ rnd.builds[1][2] # 0
    /\ rnd.builds[2] = rnd.builds[1]
    /\ rnd.left # 0


\* C24: a loaded configuration has exactly the recognized keys; a key of
\* the file that is not recognized is dropped, a recognized key has the value
\* of the file if the file has it and the default otherwise.
C24_LoadedKeysExact ==
    (prog = "config" /\ cfgPc = "loaded") =>
        /\ DOMAIN cfg.cfg = Recognized(cfg.module)
        /\ \A k \in Recognized(cfg.module) :
              cfg.cfg[k] = IF cfg.file.kind = "dict" /\ k \in cfg.file.keys
                           THEN "file" ELSE "default"


\* C25: no sink runs while the pattern it plays is written: the noise
\* generator writes its WAV files only with its sink stopped, and in the tone
\* generator no sink loop runs while the build worker is executing.
C25_NoSinkWhileWriting ==
    /\ prog = "noise" => ~ng.wrote_live
    /\ prog = "tone" => ~(tg.audio_proc = "alive" /\ TgWorkerRunning(tg))

C25_Witness ==
    /\ prog = "noise" /\ ng.cmd \in {"up", "down"}
    /\ ng.kills = 1 /\ ng.spawns = 1
    /\ ng.wav_file /\ ng.playing /\ ng.proc = "alive"
    /\ ~ng.wrote_live


\* C26: in the noise generator every up, down, select or select_hold
\* handled while not fatal writes, before the next line is read, a state event
\* that shows mode, volume, pulse_ms, focus and playing as the command left
\* them; no later event of the step shows other values.
C26_StateAfterCommand ==
    [][(NgCommandStep /\ ng.fatal = "none"
            /\ ng'.cmd \in {"up", "down", "select", "select_hold"}) =>
          /\ NgEvents(ng', "state") # {}
          /\ \A i \in NgEvents(ng', "state") :
                (\A j \in NgEvents(ng', "state") : j <= i) =>
                    ng'.out[i] = NgStateEvent(ng')]_vars

C26_Witness ==
    /\ prog = "noise" /\ ng.cmd = "up" /\ ng.focus = "volume"
    /\ ng.fatal # "none" /\ ~ng.playing /\ ng.kills = 1
    /\ \E i \in NgEvents(ng, "state") : ng.out[i] = NgStateEvent(ng)


\* The pages of the tone generator below the main page.
TgSubPages == {"freq_menu", "freq_edit", "special_freqs", "special_tones"}

\* C27: in the tone generator back on a sub-page sets page to main and
\* writes a page event followed by a state event and does not raise the
\* exiting flag; the flag is raised, and so the loop left, only by back
\* handled on the main page or by a termination signal.
C27_BackOnSubPage ==
    [][ /\ (TgCommandStep /\ tg.page \in TgSubPages /\ tg'.cmd = "back") =>
              /\ tg'.page = "main"
              /\ tg'.out = <<[type |-> "page", name |-> "main"], TgStateEvent(tg')>>
              /\ tg'.exiting = tg.exiting
              /\ tgPc' # "exited"
        /\ (tg'.exiting /\ ~tg.exiting) =>
              \/ TgCommandStep /\ tg.page = "main" /\ tg'.cmd = "back"
              \/ tg'.cause = "signal"
        /\ (tgPc' = "exited" /\ tgPc # "exited") => tg.exiting ]_vars

C27_Witness ==
    /\ prog = "tone" /\ tg.cmd = "back" /\ tg.page = "main"
    /\ ~tg.exiting /\ tgPc = "cmds"
    /\ tg.freq_hz # TG_INIT_FREQ
    /\ Len(tg.out) = 2 /\ tg.out[1].type = "page" /\ tg.out[2] = TgStateEvent(tg)


\* ---- spirit_box ------------------------------------------------------------
\* The choice list behind a cursor position and the setting it edits.
SbChoices(cursor) ==
    IF cursor = "rate" THEN SWEEP_MS_CHOICES
    ELSE IF cursor = "direction" THEN DIR_CHOICES
    ELSE MODE_CHOICES

SbValue(s, cursor) ==
    IF cursor = "rate" THEN s.sweep_ms
    ELSE IF cursor = "direction" THEN s.direction
    ELSE s.mode

\* A command that finds the clock and the operating system favourable.
SbQuiet ==
    [old |-> TRUE, old2 |-> TRUE, spawn |-> "ok", tune |-> TRUE, snap |-> "saved"]

RECURSIVE SbPresses(_, _, _)
SbPresses(s, cmd, n) ==
    IF n = 0 THEN s ELSE SbPresses(Sb_handle_cmd(s, cmd, SbQuiet), cmd, n - 1)

\* A step of the spirit box that handled a command.
SbCommandStep ==
    prog = "spirit" /\ sb'.cause = "command" /\ sb'.ncmds = sb.ncmds + 1

\* C28: in the spirit box, with the cursor on rate, direction or mode,
\* select moves the value one place forward and select_hold one place back
\* in its choice list, wrapping at the ends; select followed by select_hold
\* restores the value, and as many selects as the list has entries return
\* to the original value.
C28_CycleChoices ==
    [][ (SbCommandStep /\ sb.cursor \in {"rate", "direction", "mode"}
            /\ sb'.cmd \in {"select", "select_hold"}) =>
          LET ch == SbChoices(sb.cursor)
              n == Len(ch)
              v == SbValue(sb, sb.cursor)
              w == SbValue(sb', sb.cursor)
          IN  /\ \E i \in 1 .. n : ch[i] = v
              /\ \A i \in 1 .. n : ch[i] = v =>
                    IF sb'.cmd = "select"
                    THEN w = (IF i = n THEN ch[1] ELSE ch[i + 1])
                    ELSE w = (IF i = 1 THEN ch[n] ELSE ch[i - 1])
              /\ \A c \in {"rate", "direction", "mode"} \ {sb.cursor} :
                    SbValue(sb', c) = SbValue(sb, c)
              /\ SbValue(Sb_handle_cmd(Sb_handle_cmd(sb', "select", SbQuiet),
                                       "select_hold", SbQuiet), sb.cursor) = w
              /\ SbValue(Sb_handle_cmd(Sb_handle_cmd(sb', "select_hold", SbQuiet),
                                       "select", SbQuiet), sb.cursor) = w
              /\ SbValue(SbPresses(sb', "select", n), sb.cursor) = w
              /\ SbValue(SbPresses(sb', "select_hold", n), sb.cursor) = w ]_vars

C28_Witness ==
    /\ prog = "spirit" /\ sb.cmd = "select_hold" /\ sb.cursor = "rate"
    /\ sb.sweep_ms = 300 /\ sb.ncmds = 2
    /\ sb.out # <<>> /\ sb.out[Len(sb.out)] = SbStateEvent(sb)


\* Events of the given type written by the last step.
SbWritten(s, type) == {i \in 1 .. Len(s.out) : s.out[i].type = type}

\* C29: in the spirit box, whenever the capture thread has ended while
\* playing is true, the next iteration of the main loop sets playing and
\* ready to false and writes a fatal event, at every such occurrence of
\* the run and not only at the first.
C29_CrashAlwaysFatal ==
    [][ (prog = "spirit" /\ sb'.cause = "tick" /\ sb.playing
            /\ sb.cap_t = "dead") =>
          /\ ~sb'.playing
          /\ ~sb'.ready
          /\ SbWritten(sb', "fatal") # {} ]_vars


\* ---- stopping the sink --------------------------------------------------
\* C30: stopping is idempotent.  AudioLoop.stop of the noise generator and
\* stop_audio of the tone generator, called when no sink process is running,
\* signal nothing, and a second stop right after a first one leaves the
\* state as the first one left it; a step of the noise generator that finds
\* no running sink and starts none signals nothing.
C30_StopIdempotent ==
    [][ /\ prog = "noise" =>
              LET s1 == Ng_audio_stop(ng')
                  s2 == Ng_audio_stop(s1)
              IN  /\ s1.proc = "none"
                  /\ s2 = s1
                  /\ ng'.proc # "alive" => s1.kills = ng'.kills
                  /\ (ng.proc # "alive" /\ ng'.spawns = 0) => ng'.kills = 0
        /\ prog = "tone" =>
              LET t1 == Tg_stop_audio(tg')
                  t2 == Tg_stop_audio(t1)
              IN  /\ t1.audio_proc = "none"
                  /\ t2 = t1
                  /\ Tg_stop_proc(t1.audio_proc) = 0
                  /\ tg'.audio_proc # "alive" => Tg_stop_proc(tg'.audio_proc) = 0 ]_vars

\* The noise generator has shut down twice, so stopped twice, and signalled
\* its sink once.
C30_Witness ==
    /\ prog = "noise" /\ ng.exits = 2 /\ ng.kills = 1 /\ ng.proc = "none"
    /\ ngPc = "exited"

\* ---- the pulse gate ----------------------------------------------------
\* C31: with the pulse gate on in the legacy noise generator, for period p
\* and duty d at a volume above 0, the non-silent samples of one period of
\* the stream are the fraction d of the period, within one sample.
C31_DutyLaw ==
    (prog = "pulse" /\ pg.total = LgPeriodSamples(pg.st.pulse_ms)) =>
        /\ (pg.on - 1) * 100 <= pg.total * pg.st.duty
        /\ pg.total * pg.st.duty <= (pg.on + 1) * 100


\* ---- the WAV writer of the tone generator -------------------------------
\* C32: _write_wav_from_samples writes exactly int(rate * seconds) frames
\* at frame rate rate for every generator of the tone generator, so the file
\* read back has the requested sample count and sample rate; while it
\* writes, the frames handed over and pending are the samples taken.
C32_FramesWritten ==
    prog = "wav" =>
        /\ wv.written + wv.block = wv.i
        /\ wv.i <= wv.total_frames
        /\ wvPc = "replaced" =>
              /\ wv.file.nframes = (TgWavArgs(wv.kind).rate * TgWavArgs(wv.kind).seconds) \div 10
              /\ wv.file.framerate = TgWavArgs(wv.kind).rate

\* A pattern whose length is no multiple of the block has been written.
C32_Witness ==
    /\ prog = "wav" /\ wvPc = "replaced" /\ wv.kind = "shepard_des"
    /\ wv.file.nframes = 240000 /\ wv.file.nframes % TG_BLOCK_FRAMES # 0


\* ---- uap_caller: when a player is started ---------------------------------
\* Events of the given type written by the last step of uap_caller.
UapWritten(s, type) == {i \in 1 .. Len(s.out) : s.out[i].type = type}

RECURSIVE PumpValidLines(_)
PumpValidLines(w) ==
    IF PumpNewline(w) = 0 THEN <<>>
    ELSE LET k == PumpNewline(w)
             l == SubSeq(w, 1, k - 1)
         IN  (IF PumpIsJSON(l) THEN <<l>> ELSE <<>>)
                 \o PumpValidLines(SubSeq(w, k + 1, Len(w)))

\* The incomplete line at the end of the bytes w.
RECURSIVE PumpTrailing(_)
PumpTrailing(w) ==
    IF PumpNewline(w) = 0 THEN w
    ELSE PumpTrailing(SubSeq(w, PumpNewline(w) + 1, Len(w)))

\* C34: across successive pump calls the messages returned are exactly the
\* valid JSON lines the child wrote, once each and in order: they are always
\* a prefix of those lines, no call returns more than max_lines of them, and
\* a call that returns fewer than max_lines with the pipe read empty has
\* returned every valid complete line and keeps the incomplete trailing one.
C34_ExactlyTheValidLines ==
    prog = "pump" =>
        /\ Len(pm.last) <= pm.max_lines
        /\ Len(pm.returned) <= Len(PumpValidLines(pm.written))
        /\ pm.returned = SubSeq(PumpValidLines(pm.written), 1, Len(pm.returned))
        /\ (pm.calls > 0 /\ pm.pipe = <<>> /\ Len(pm.last) < pm.max_lines) =>
              /\ pm.returned = PumpValidLines(pm.written)
              /\ PumpTrailing(pm.buf) = PumpTrailing(pm.written)


\* ---- the build worker's reads of the parameters -----------------------------
\* C35: in the tone generator each build generates its pattern from one
\* snapshot of (selection, special_tone_id, freq_hz, volume): the control
\* loop changes none of them between the worker's reads, and the arguments
\* the generator gets are those of the parameters as they are then.
C35_OneSnapshot ==
    [][ prog = "tone" =>
          /\ (tg.wphase = "dispatched" /\ tg'.wphase = "dispatched") =>
                /\ tg'.selection = tg.selection
                /\ tg'.special_tone_id = tg.special_tone_id
                /\ tg'.freq_hz = tg.freq_hz
                /\ tg'.volume = tg.volume
          /\ (tg.wphase = "dispatched" /\ tg'.wphase = "run") =>
                tg'.job = TgWanted(tg) ]_vars


\* ---- the sink and the exit event of the noise generator ---------------------
\* C36: in the noise generator no sink process is started once the exit
\* event has been written: a step that begins with an exit event on the
\* output spawns nothing.
C36_NoSinkAfterExit ==
    [][ (prog = "noise" /\ ng.exits > 0) => ng'.spawns = 0 ]_vars



\* ---- playing, the sink handle and the fatal state ---------------------------
\* C37: in the noise generator, in every state reached between two loop
\* iterations, playing is true only if a sink handle exists, and in the fatal
\* state playing is false; a step that begins in the fatal state attempts no
\* sink start.
C37_PlayingAndFatal ==
    [][ prog = "noise" =>
          /\ ngPc' = "select" =>
                /\ ng'.playing => ng'.proc # "none"
                /\ ng'.fatal # "none" => ~ng'.playing
          /\ ng.fatal # "none" => ng'.attempts = 0 ]_vars



\* ---- a play request is served -----------------------------------------------
\* The tone generator with a player on the PATH and builds that succeed.
\* The control loop is a while True that sleeps 10 ms per iteration and never
\* blocks on input, and the worker is a thread of its own: both keep taking
\* their steps (weak fairness).  Commands, signals and the death of the sink
\* are left to the environment.
TgLiveInit == TgInit /\ tg.player

TgLiveNext ==
    \/ TgTop
    \/ \E tok \in Tokens : TgCommand(tok)
    \/ \E o \in LoopOutcomes, hb \in BOOLEAN : TgTick(o, hb)
    \/ TgSignal
    \/ TgSinkDies
    \/ TgWorkerDispatch
    \/ TgWorkerArgs
    \/ TgWorkerFinish
    \/ TgWorkerExit

TgLiveFairness ==
    /\ WF_vars(TgTop)
    /\ WF_vars(\E o \in LoopOutcomes, hb \in BOOLEAN : TgTick(o, hb))
    /\ WF_vars(TgWorkerDispatch)
    /\ WF_vars(TgWorkerArgs)
    /\ WF_vars(TgWorkerFinish)
    /\ WF_vars(TgWorkerExit)

SpecToneLive == TgLiveInit /\ [][TgLiveNext]_vars /\ TgLiveFairness

C39_RingLaw ==
    prog = "ring" =>
        /\ rg.push_pc = "idle" =>
              /\ rg.size = Len(RingFlat(rg.q))
              /\ rg.size <= rg.max_bytes
              /\ RingFlat(rg.q) = [i \in 1 .. rg.size |-> rg.arrived - rg.size + i]
        /\ rg.snap_pc = "idle" =>
              LET n == IF rg.want < rg.seen_size THEN rg.want ELSE rg.seen_size IN
              /\ rg.seen_size = Len(RingFlat(rg.seen))
              /\ rg.result = RingLast(RingFlat(rg.seen), n)

\* A snapshot taken after an eviction returned fewer bytes than the ring
\* held, from more than one block.
C39_Witness ==
    /\ prog = "ring" /\ rg.snap_pc = "idle" /\ rg.nsnap > 0
    /\ rg.evicted > 0
    /\ Len(rg.result) = rg.want /\ rg.want < rg.seen_size
    /\ rg.want > Len(rg.seen[Len(rg.seen)])
    /\ rg.push_pc = "evict"


====
